---- MODULE Spec2Model ----
(***************************************************************************)
(* Verification model of simtfl-rust.                                      *)
(*                                                                         *)
(*  - crates/bc : BCContext / BCTransaction (ledger validation and update) *)
(*  - crates/bft: Streamlet chain model (last_final)                       *)
(*                                                                         *)
(* Option<T> values are modelled as sequences of length at most one:       *)
(* None is <<>> and Some(x) is <<x>>.                                      *)
(***************************************************************************)
EXTENDS Integers, Sequences, FiniteSets, TLC

VARIABLES
    heap,             \* BCContext objects by handle (None: not allocated)
    snapRef,          \* reference returned by the last BCContext::copy (NullRef before)
    overflow_checks,  \* build profile: TRUE panics on i32 overflow, FALSE wraps
    panicked,         \* the process has panicked (arithmetic overflow)
    last,             \* history: the last operation, its input and its result
    accepted,         \* history: per handle, the transactions whose apply returned true
    consumed,         \* history: per handle, notes consumed and not listed as output since
    applied,          \* history: number of applies that returned true in this run
    step,             \* position in the shielding/deshielding scenario
    tip,              \* Streamlet: the chain node built so far (Option)
    prop,             \* Streamlet: the proposal under construction (Option)
    slLast,           \* history: the last call on a proposal, its argument and its result
    signed,           \* history: the node ids passed to add_signature since Proposal::new
    gen,              \* StreamletGenesis::new on a usize of full width: argument and outcome
    event_queue,      \* EventQueue.queue: the vector of the BinaryHeap
    pending,          \* history: the events scheduled and not yet popped, oldest first
    scheduled,        \* history: number of events scheduled in this run
    eqLast,           \* history: the last call on the event queue and its result
    net,              \* Network: the senders and receivers maps and the channels they share
    netLast,          \* history: the last call on the network, its arguments and how it ended
    nd,               \* one node of its own: a PassiveNode, SequentialNode, HonestNode or ByzantineNode
    iter,             \* whether an iterator returned by node.run() is alive
    nodeLast,         \* history: the last call on the node, its argument and its result
    handled,          \* history: the (sender, message) pairs whose handle returned, in order
    effects,          \* history: the effects the iterators of run yielded, in order
    acts,             \* history: number of propose, vote and finalize calls
    nodes,            \* Simulation.nodes
    pc,               \* Simulation::start: not called, at a point of its loop, or returned
    cursor,           \* Simulation::start: position of `for node in &self.nodes`
    awaited,          \* history: the effects start awaited, in order
    started           \* history: the event queue and the nodes when start was called

bcVars == <<heap, snapRef, overflow_checks, panicked, last, accepted, consumed, applied, step>>
slVars == <<tip, prop>>
ppVars == <<slLast, signed>>
eqVars == <<event_queue, pending, scheduled, eqLast>>
netVars == <<net, netLast>>
nodeVars == <<nd, iter, nodeLast, handled, effects, acts>>
simVars == <<nodes, pc, cursor, awaited, started>>
nonBcVars == <<slVars, ppVars, gen, eqVars, netVars, nodeVars, simVars>>
nonSlVars == <<bcVars, ppVars, gen, eqVars, netVars, nodeVars, simVars>>
vars == <<heap, snapRef, overflow_checks, panicked, last, accepted, consumed, applied, step,
          tip, prop, slLast, signed, gen, event_queue, pending, scheduled, eqLast,
          net, netLast, nd, iter, nodeLast, handled, effects, acts,
          nodes, pc, cursor, awaited, started>>

None == <<>>
Some(x) == <<x>>
is_some(o) == Len(o) = 1
is_none(o) == Len(o) = 0
unwrap(o) == o[1]

(***************************************************************************)
(* Bounds of the model                                                     *)
(***************************************************************************)
MaxIO == 2        \* total number of inputs and outputs of a generated transaction
MaxTxs == 3       \* number of successful applies in a run of the evolving ledger

(***************************************************************************)
(* crates/bc/src/transaction.rs : TXO, Note                                *)
(***************************************************************************)
I32Max == 2147483647
I32Min == -I32Max - 1

TXO(v) == [tx |-> 0, index |-> 0, value |-> v]
Note(v) == [value |-> v]

Unspent == "Unspent"
Spent == "Spent"

(***************************************************************************)
(* crates/bc/src/context.rs                                                *)
(***************************************************************************)
new == [transactions |-> <<>>,
        utxo_set |-> {},
        notes |-> [n \in {} |-> Unspent],
        total_issuance |-> 0]

\* HashMap::get(note).is_some_and(|s| *s == Unspent) over every note of the slice
can_spend(self, notes) ==
    \A i \in 1..Len(notes) :
        notes[i] \in DOMAIN self.notes /\ self.notes[notes[i]] = Unspent

is_spent(self, note) ==
    note \in DOMAIN self.notes /\ self.notes[note] = Spent

is_coinbase(self) ==
    Len(self.transparent_inputs) = 0 /\ Len(self.shielded_inputs) = 0

\* the loop over transparent_inputs, returning at the first missing TXO
RECURSIVE transparent_inputs_found(_, _, _)
transparent_inputs_found(self, context, i) ==
    IF i > Len(self.transparent_inputs) THEN TRUE
    ELSE IF ~(self.transparent_inputs[i] \in context.utxo_set) THEN FALSE
    ELSE transparent_inputs_found(self, context, i + 1)

shielded_inputs_known(self, context, i) ==
    \A k \in i..Len(self.shielded_inputs) : self.shielded_inputs[k] \in DOMAIN context.notes

\* the loop over shielded_inputs, returning at the first missing or spent note
RECURSIVE shielded_inputs_unspent(_, _, _)
shielded_inputs_unspent(self, context, i) ==
    IF i > Len(self.shielded_inputs) THEN TRUE
    ELSE IF \/ ~(self.shielded_inputs[i] \in DOMAIN context.notes)
            \/ context.notes[self.shielded_inputs[i]] # Unspent THEN FALSE
    ELSE shielded_inputs_unspent(self, context, i + 1)

is_valid(self, context) ==
    IF ~is_coinbase(self) /\ self.fee < 0 THEN FALSE
    ELSE IF ~is_coinbase(self) /\ self.issuance # 0 THEN FALSE
    ELSE IF ~transparent_inputs_found(self, context, 1) THEN FALSE
    ELSE IF ~shielded_inputs_unspent(self, context, 1) THEN FALSE
    ELSE IF Len(self.shielded_inputs) # 0
         THEN IF is_some(self.anchor)
              THEN IF ~can_spend(unwrap(self.anchor), self.shielded_inputs)
                   THEN FALSE ELSE TRUE
              ELSE FALSE
    ELSE TRUE

remove_first_only(utxo_set, txos, i) ==
    IF i > Len(txos) THEN utxo_set ELSE utxo_set \ {txos[i]}

\* for txo in &tx.transparent_inputs { self.utxo_set.remove(txo); }
RECURSIVE remove_all(_, _, _)
remove_all(utxo_set, txos, i) ==
    IF i > Len(txos) THEN utxo_set
    ELSE remove_all(utxo_set \ {txos[i]}, txos, i + 1)

\* for txo in &tx.transparent_outputs { self.utxo_set.insert(txo.clone()); }
RECURSIVE insert_all(_, _, _)
insert_all(utxo_set, txos, i) ==
    IF i > Len(txos) THEN utxo_set
    ELSE insert_all(utxo_set \cup {txos[i]}, txos, i + 1)

spend_none(notes, ins, i) == notes

\* for note in &tx.shielded_inputs { if let Some(e) = notes.get_mut(note) { *e = Spent } }
RECURSIVE spend_all(_, _, _)
spend_all(notes, ins, i) ==
    IF i > Len(ins) THEN notes
    ELSE spend_all(IF ins[i] \in DOMAIN notes
                   THEN [notes EXCEPT ![ins[i]] = Spent]
                   ELSE notes, ins, i + 1)

\* for note in &tx.shielded_outputs { notes.insert(note.clone(), Unspent); }
RECURSIVE unspend_all(_, _, _)
unspend_all(notes, outs, i) ==
    IF i > Len(outs) THEN notes
    ELSE unspend_all([n \in DOMAIN notes \cup {outs[i]} |->
                         IF n = outs[i] THEN Unspent ELSE notes[n]], outs, i + 1)

\* i32 `+`: does the sum leave the range of i32
overflows(a, b) ==
    \/ a > 0 /\ b > I32Max - a
    \/ a < 0 /\ b < I32Min - a

\* i32 `+` without overflow checks (two's complement wrap-around)
wrapping_add(a, b) ==
    IF a > 0 /\ b > I32Max - a THEN (a - I32Max - 1) + (b - I32Max - 1)
    ELSE IF a < 0 /\ b < I32Min - a THEN (a + I32Max + 1) + (b + I32Max + 1)
    ELSE a + b

\* the "Update UTXO set" block of add_transaction
update_utxo_set(utxo_set, tx) ==
    insert_all(remove_all(utxo_set, tx.transparent_inputs, 1), tx.transparent_outputs, 1)

update_notes_inputs_last(notes, tx) ==
    spend_all(unspend_all(notes, tx.shielded_outputs, 1), tx.shielded_inputs, 1)

\* the "Update shielded notes" block of add_transaction
update_notes(notes, tx) ==
    unspend_all(spend_all(notes, tx.shielded_inputs, 1), tx.shielded_outputs, 1)

\* add_transaction after validation: the four updates, in the order of the code
\* (`+=` panics on overflow under overflow checks, before the push)
commit(self, tx, checks) ==
    LET updated == [self EXCEPT !.utxo_set = update_utxo_set(self.utxo_set, tx),
                                !.notes = update_notes(self.notes, tx)]
    IN  IF checks /\ overflows(self.total_issuance, tx.issuance)
        THEN [ctx |-> updated, ret |-> "panic"]
        ELSE [ctx |-> [updated EXCEPT
                          !.total_issuance = wrapping_add(self.total_issuance, tx.issuance),
                          !.transactions = Append(self.transactions, tx)],
              ret |-> "true"]

add_transaction_validate_late(self, tx, checks) ==
    IF ~is_valid(tx, self)
    THEN [ctx |-> [self EXCEPT !.utxo_set = update_utxo_set(self.utxo_set, tx)],
          ret |-> "false"]
    ELSE commit(self, tx, checks)

\* BCContext::add_transaction: the context afterwards and the outcome
\* ("true", "false", or "panic" when `+=` overflows under overflow checks)
add_transaction(self, tx, checks) ==
    IF ~is_valid(tx, self) THEN [ctx |-> self, ret |-> "false"]
    ELSE commit(self, tx, checks)

\* References to BCContext objects: the live context of the caller and the
\* object allocated by copy
NullRef == "null"
Live == "ctx"
Snap == "snapshot"
Handles == {Live, Snap}

copy_alias(hp, h) == [heap |-> hp, ref |-> h]

\* BCContext::copy on the object at handle h: a new object holding clones of
\* the four fields; the result is the heap afterwards and the new reference
copy(hp, h) ==
    [heap |-> [hp EXCEPT ![Snap] =
                 Some([transactions |-> unwrap(hp[h]).transactions,
                       utxo_set |-> unwrap(hp[h]).utxo_set,
                       notes |-> unwrap(hp[h]).notes,
                       total_issuance |-> unwrap(hp[h]).total_issuance])],
     ref |-> Snap]

(***************************************************************************)
(* Inputs: the transactions and contexts a caller may build                *)
(***************************************************************************)
TXOs == {TXO(1), TXO(2)}
Notes == {Note(1), Note(2)}
Fees == {-1, 1}
Issuances == {0, 5, I32Max}
Spentness == {Unspent, Spent}

Range(s) == {s[i] : i \in 1..Len(s)}

ListsOfLen(S, k) == [1..k -> S]

\* every partial map from Notes to Spentness
NoteMaps == UNION { [D -> Spentness] : D \in SUBSET Notes }

\* contexts built field by field (all fields of BCContext are public)
Contexts ==
    [transactions : {<<>>}, utxo_set : SUBSET TXOs, notes : NoteMaps,
     total_issuance : {0, I32Max}]

\* anchors built field by field: what is_valid reads of an anchor is its notes
AnchorContexts ==
    { [new EXCEPT !.notes = m] :
        m \in { f \in NoteMaps : \A n \in DOMAIN f : n = Note(1) \/ f[n] = Unspent } }

AnyAnchors == {None} \cup { Some(c) : c \in AnchorContexts }

\* the anchors a caller of the evolving ledger holds: none, or the snapshot
HeldAnchors == {None} \cup (IF snapRef # NullRef THEN {heap[snapRef]} ELSE {})

\* every transaction with at most MaxIO inputs and outputs in total
AnyTxs ==
    UNION { UNION { UNION { UNION {
        [transparent_inputs : ListsOfLen(TXOs, a),
         transparent_outputs : ListsOfLen(TXOs, b),
         shielded_inputs : ListsOfLen(Notes, c),
         shielded_outputs : ListsOfLen(Notes, d),
         fee : Fees, anchor : AnyAnchors, issuance : Issuances]
        : d \in 0..(MaxIO - a - b - c) }
        : c \in 0..(MaxIO - a - b) }
        : b \in 0..(MaxIO - a) }
        : a \in 0..MaxIO }

\* the transactions submitted to the evolving ledger: coinbases minting a TXO
\* or a note, and spends of that TXO or note
LedgerTxs ==
    { [transparent_inputs |-> <<>>, transparent_outputs |-> o[1],
       shielded_inputs |-> <<>>, shielded_outputs |-> o[2],
       fee |-> -1, anchor |-> None, issuance |-> i] :
        o \in { <<<<>>, <<>>>>, <<<<TXO(1)>>, <<>>>>, <<<<>>, <<Note(1)>>>> },
        i \in Issuances }
    \cup
    [transparent_inputs : {<<>>},
     transparent_outputs : {<<>>},
     shielded_inputs : {<<Note(1)>>},
     shielded_outputs : {<<>>, <<Note(1)>>},
     fee : {1}, anchor : HeldAnchors, issuance : {0}]
    \cup
    [transparent_inputs : {<<TXO(1)>>},
     transparent_outputs : {<<>>, <<TXO(1)>>},
     shielded_inputs : {<<>>},
     shielded_outputs : {<<>>},
     fee : {1}, anchor : {None}, issuance : {0}]

NoOp == [op |-> "none", via |-> NullRef, tx |-> None, ret |-> "none", pre |-> <<>>,
         blocked |-> {}]

(***************************************************************************)
(* The ledger as a state machine                                           *)
(***************************************************************************)
\* no call on a proposal has been made
NoSlOp == [op |-> "none", arg |-> 0, ret |-> "ok", pre |-> None]

InitPP ==
    /\ slLast = NoSlOp
    /\ signed = {}

\* StreamletGenesis::new has not been called
NoGenesis == [n |-> <<0, 0, 0, 0>>, ret |-> "none", value |-> None, last_final |-> None]

\* no call on the event queue has been made
NoEqOp == [op |-> "none", ret |-> None, pre |-> <<>>, prev |-> None]

\* EventQueue::new, with its history
InitEQ ==
    /\ event_queue = <<>>
    /\ pending = <<>>
    /\ scheduled = 0
    /\ eqLast = NoEqOp

\* Network::new: no node registered
new_network == [senders |-> {}, receivers |-> {}, channels |-> <<>>]

\* no call on the network has been made
NoNetOp == [op |-> "none", sender_id |-> 0, target_id |-> 0, ret |-> "returned",
            value |-> None, pre |-> new_network, pre_queue |-> <<>>]

InitNet ==
    /\ net = new_network
    /\ netLast = NoNetOp

\* no call on the node has been made
NoNodeOp == [op |-> "none", arg |-> None, ret |-> "ok", value |-> None, pre |-> None]

InitNodeHistory ==
    /\ iter = "none"
    /\ nodeLast = NoNodeOp
    /\ handled = <<>>
    /\ effects = <<>>
    /\ acts = 0

\* Simulation::new, start not called
InitSim ==
    /\ nodes = <<>>
    /\ pc = "idle"
    /\ cursor = 0
    /\ awaited = <<>>
    /\ started = None

InitBft ==
    /\ tip = None
    /\ prop = None
    /\ InitPP
    /\ gen = NoGenesis
    /\ InitEQ
    /\ InitNet
    /\ InitNodeHistory
    /\ InitSim

InitSL ==
    /\ InitBft
    /\ nd = [kind |-> "Passive", id |-> 0]

InitHistory ==
    /\ snapRef = NullRef
    /\ overflow_checks \in BOOLEAN
    /\ panicked = FALSE
    /\ last = NoOp
    /\ accepted = [h \in Handles |-> <<>>]
    /\ consumed = [h \in Handles |-> [strict |-> {}, lenient |-> {}]]
    /\ applied = 0
    /\ step = 0

\* let mut ctx = BCContext::new();
Init ==
    /\ heap = [h \in Handles |-> IF h = Live THEN Some(new) ELSE None]
    /\ InitHistory
    /\ InitSL

\* let mut ctx = BCContext { transactions, utxo_set, notes, total_issuance };
InitApply ==
    /\ \E c \in Contexts : heap = [h \in Handles |-> IF h = Live THEN Some(c) ELSE None]
    /\ InitHistory
    /\ InitSL

\* r.add_transaction(tx) through the reference r
Apply(r, tx) ==
    /\ ~panicked
    /\ r # NullRef
    /\ is_some(heap[r])
    /\ LET res == add_transaction(unwrap(heap[r]), tx, overflow_checks)
           ins == Range(tx.shielded_inputs)
           outs == Range(tx.shielded_outputs)
       IN  /\ heap' = [heap EXCEPT ![r] = Some(res.ctx)]
           /\ panicked' = (res.ret = "panic")
           /\ last' = [op |-> "apply", via |-> r, tx |-> Some(tx), ret |-> res.ret,
                       pre |-> heap, blocked |-> consumed[r]]
           /\ accepted' = IF res.ret = "true"
                          THEN [accepted EXCEPT ![r] = Append(@, tx)]
                          ELSE accepted
           /\ consumed' = IF res.ret = "true"
                          THEN [consumed EXCEPT
                                  ![r].strict = (@ \ outs) \cup ins,
                                  ![r].lenient = (@ \cup ins) \ outs]
                          ELSE consumed
           /\ applied' = IF res.ret = "true" THEN applied + 1 ELSE applied
    /\ UNCHANGED <<snapRef, overflow_checks>>
    /\ UNCHANGED nonBcVars

\* one call of add_transaction on a context built by the caller
ApplyOnce ==
    /\ last.op = "none"
    /\ \E tx \in AnyTxs : Apply(Live, tx)
    /\ UNCHANGED step

ApplyLive ==
    /\ applied < MaxTxs
    /\ \E tx \in LedgerTxs : Apply(Live, tx)
    /\ UNCHANGED step

ApplySnap ==
    /\ snapRef # NullRef
    /\ applied < MaxTxs
    /\ \E tx \in LedgerTxs : Apply(snapRef, tx)
    /\ UNCHANGED step

\* let snapshot = ctx.copy();
TakeSnapshot ==
    /\ ~panicked
    /\ LET res == copy(heap, Live)
       IN  /\ heap' = res.heap
           /\ snapRef' = res.ref
           /\ accepted' = [accepted EXCEPT ![res.ref] = accepted[Live]]
           /\ consumed' = [consumed EXCEPT ![res.ref] = consumed[Live]]
    /\ last' = [NoOp EXCEPT !.op = "copy", !.via = Live, !.pre = heap]
    /\ UNCHANGED <<overflow_checks, panicked, applied>>
    /\ UNCHANGED nonBcVars

Snapshot ==
    /\ snapRef = NullRef
    /\ TakeSnapshot
    /\ UNCHANGED step

Next == ApplyLive \/ ApplySnap \/ Snapshot

\* the ledger evolving from the empty context
Spec == Init /\ [][Next]_vars

NextApply == ApplyOnce

\* one add_transaction on any context
SpecApply == InitApply /\ [][NextApply]_vars

(***************************************************************************)
(* The shielding/deshielding scenario (crates/bc/tests/tests.rs test_basic)*)
(***************************************************************************)
Tx(tin, tout, sin, sout, fee, anchor, issuance) ==
    [transparent_inputs |-> tin, transparent_outputs |-> tout,
     shielded_inputs |-> sin, shielded_outputs |-> sout,
     fee |-> fee, anchor |-> anchor, issuance |-> issuance]

CoinbaseFees == {-2, -1, 0}
SpendFees == {0, 1}

\* the transactions the scenario may submit at each position
ScenarioTxs(k) ==
    IF k = 0 THEN { Tx(<<>>, <<TXO(10)>>, <<>>, <<>>, f, None, 10) : f \in CoinbaseFees }
    ELSE IF k = 1 THEN { Tx(<<>>, <<TXO(6)>>, <<>>, <<>>, f, None, 5) : f \in CoinbaseFees }
    ELSE IF k = 2 THEN { Tx(<<TXO(10)>>, <<TXO(9)>>, <<>>, <<>>, f, None, 0) : f \in SpendFees }
    ELSE IF k = 3 THEN { Tx(<<>>, <<TXO(6)>>, <<>>, <<>>, f, None, 5) : f \in CoinbaseFees }
    ELSE IF k = 4 THEN { Tx(<<TXO(6), TXO(9)>>, <<>>, <<>>, <<Note(8), Note(6)>>, f, None, 0) :
                           f \in SpendFees }
    ELSE IF k = 6 THEN { Tx(<<>>, <<>>, <<Note(8)>>, <<Note(7)>>, f, heap[snapRef], 0) :
                           f \in SpendFees }
    ELSE IF k = 7 THEN { Tx(<<>>, <<TXO(5)>>, <<>>, <<>>, f, a, 0) :
                           f \in SpendFees, a \in {None, heap[snapRef]} }
    ELSE {}

ScenarioApply ==
    /\ \E tx \in ScenarioTxs(step) : Apply(Live, tx)
    /\ step' = step + 1

\* let block2_anchor = ctx.clone();
ScenarioSnapshot ==
    /\ step = 5
    /\ TakeSnapshot
    /\ step' = step + 1

NextScenario == ScenarioApply \/ ScenarioSnapshot

SpecScenario == Init /\ [][NextScenario]_vars

(***************************************************************************)
(* crates/bft/src/lib.rs, crates/bft/src/streamlet/mod.rs                  *)
(*                                                                         *)
(* A PermissionedBFTEnum value is a record tagged by kind: "Base", "Block" *)
(* or "Proposal".                                                          *)
(***************************************************************************)
PermissionedBFTBase(n, t) == [kind |-> "Base", n |-> n, t |-> t, parent |-> None]

\* StreamletGenesis::new(n).last_final()
StreamletGenesis(n) == PermissionedBFTBase(n, (n * 2 + 2) \div 3)

\* StreamletProposal::new after its assertion
StreamletProposal(parent, e) ==
    [kind |-> "Proposal", parent |-> parent, epoch |-> e, signatures |-> {}]

\* the struct literal StreamletBlock { proposal, parent }
StreamletBlock(proposal, parent) ==
    [kind |-> "Block", proposal |-> proposal, parent |-> parent]

\* PermissionedBFTEnum::epoch
epoch(node) ==
    IF node.kind = "Base" THEN 0
    ELSE IF node.kind = "Block" THEN node.proposal.epoch
    ELSE node.epoch

\* PermissionedBFTEnum::parent
parent(node) ==
    IF node.kind = "Base" THEN None
    ELSE IF node.kind = "Block" THEN node.parent
    ELSE Some(node.parent)

\* StreamletProposal::add_signature
add_signature(proposal, node_id) ==
    [proposal EXCEPT !.signatures = @ \cup {node_id}]

\* PermissionedBFTEnum::t, StreamletProposal::t: the threshold is read from
\* the Base at the end of the chain of proposal parents
RECURSIVE bft_t(_)
bft_t(node) ==
    IF node.kind = "Base" THEN node.t
    ELSE IF node.kind = "Block" THEN bft_t(node.proposal.parent)
    ELSE bft_t(node.parent)

\* PermissionedBFTEnum::n, StreamletProposal::n
RECURSIVE bft_n(_)
bft_n(node) ==
    IF node.kind = "Base" THEN node.n
    ELSE IF node.kind = "Block" THEN bft_n(node.proposal.parent)
    ELSE bft_n(node.parent)

\* a mutation of is_notarized: t signatures are enough
is_notarized_at_t(proposal) ==
    Cardinality(proposal.signatures) >= bft_t(proposal)

\* StreamletProposal::is_notarized
is_notarized(proposal) ==
    LET required_signatures == bft_t(proposal) + 1
    IN  Cardinality(proposal.signatures) >= required_signatures

Returns == "ok"
NotNotarized == "panic: Proposal is not notarized"
EpochNotGreater == "panic: assertion failed: epoch > parent_epoch"

\* a mutation of assert_notarized: the assertion is compiled out
assert_notarized_unchecked(proposal) == Returns

\* StreamletProposal::assert_notarized: how the call ends
assert_notarized(proposal) ==
    IF is_notarized(proposal) THEN Returns ELSE NotNotarized

\* a mutation of StreamletProposal::new: the parent's epoch is accepted
proposal_new_allows_equal(p, e) ==
    LET parent_epoch == epoch(p)
    IN  IF e >= parent_epoch
        THEN [ret |-> Returns, value |-> Some(StreamletProposal(p, e))]
        ELSE [ret |-> EpochNotGreater, value |-> None]

\* StreamletProposal::new: how the call ends and the proposal it yields
proposal_new(p, e) ==
    LET parent_epoch == epoch(p)
    IN  IF e > parent_epoch
        THEN [ret |-> Returns, value |-> Some(StreamletProposal(p, e))]
        ELSE [ret |-> EpochNotGreater, value |-> None]

window_returns_first(first, middle, lst) ==
    IF is_none(first.parent) THEN first
    ELSE IF epoch(first) + 1 = epoch(middle) /\ epoch(middle) + 1 = epoch(lst) THEN first
    ELSE IF unwrap(first.parent).kind # "Block" THEN unwrap(first.parent)
    ELSE unwrap(first.parent)

\* the loop of StreamletBlock::last_final on the window (first, middle, last).
\* The shift assigns `first = new_first` before `new_middle = first`, so the
\* next window is (new_first, new_first, middle).
RECURSIVE window(_, _, _)
window(first, middle, lst) ==
    IF is_none(first.parent) THEN first
    ELSE IF epoch(first) + 1 = epoch(middle) /\ epoch(middle) + 1 = epoch(lst) THEN middle
    ELSE LET new_first == unwrap(first.parent)
         IN  IF new_first.kind # "Block" THEN new_first
             ELSE window(new_first, new_first, middle)

\* a mutation of last_final_from_parent: a parent that is not a Block is
\* skipped and the Block itself returned
last_final_from_parent_keeps_self(self) ==
    LET middle == unwrap(self.parent)
    IN  IF middle.kind # "Block" THEN self
        ELSE IF is_none(middle.parent) THEN middle
        ELSE LET first == unwrap(middle.parent)
             IN  IF first.kind # "Block" THEN first
                 ELSE window(first, middle, self)

\* a mutation of last_final_from_parent: for a parent that is not a Block
\* the parent of the proposal is returned
last_final_from_parent_to_proposal(self) ==
    LET middle == unwrap(self.parent)
    IN  IF middle.kind # "Block" THEN self.proposal.parent
        ELSE IF is_none(middle.parent) THEN middle
        ELSE LET first == unwrap(middle.parent)
             IN  IF first.kind # "Block" THEN first
                 ELSE window(first, middle, self)

\* StreamletBlock::last_final once self.parent is known to be Some: the
\* matches on middle and first that precede the loop
last_final_from_parent(self) ==
    LET middle == unwrap(self.parent)
    IN  IF middle.kind # "Block" THEN middle
        ELSE IF is_none(middle.parent) THEN middle
        ELSE LET first == unwrap(middle.parent)
             IN  IF first.kind # "Block" THEN first
                 ELSE window(first, middle, self)

\* a mutation of last_final: a Block without parent answers with the parent
\* of its proposal
last_final_of_proposal_parent(self) ==
    IF is_none(self.parent) THEN self.proposal.parent
    ELSE last_final_from_parent(self)

\* StreamletBlock::last_final
last_final(self) ==
    IF is_none(self.parent) THEN self
    ELSE last_final_from_parent(self)

\* PermissionedBFTBase::last_final
base_last_final(self) == self

\* <PermissionedBFTEnum as LastFinal>::last_final
RECURSIVE enum_last_final(_)
enum_last_final(node) ==
    IF node.kind = "Base" THEN base_last_final(node)
    ELSE IF node.kind = "Block" THEN last_final(node)
    ELSE enum_last_final(node.parent)

(***************************************************************************)
(* Building a Streamlet chain                                              *)
(***************************************************************************)
MaxNodes == 1     \* largest number of participants of a genesis
MaxEpoch == 5     \* largest epoch of a proposal
MaxBlocks == 4    \* largest number of Blocks packaged in a run

Signers == {0, 1}

\* the nodes reached from node by following parent(), node included
RECURSIVE ParentChain(_)
ParentChain(node) ==
    {node} \cup (IF is_none(parent(node)) THEN {} ELSE ParentChain(unwrap(parent(node))))

ProperAncestors(node) ==
    IF is_none(parent(node)) THEN {} ELSE ParentChain(unwrap(parent(node)))

BlocksOf(node) == { b \in ParentChain(node) : b.kind = "Block" }

\* let genesis = StreamletGenesis::new(n); let current = genesis.last_final();
Genesis ==
    /\ tip = None
    /\ \E n \in 0..MaxNodes : tip' = Some(StreamletGenesis(n))
    /\ UNCHANGED prop
    /\ UNCHANGED nonSlVars

\* let proposal = StreamletProposal::new(Box::new(current), e);
Propose ==
    /\ is_some(tip)
    /\ prop = None
    /\ Cardinality(BlocksOf(unwrap(tip))) < MaxBlocks
    /\ \E e \in 1..MaxEpoch :
          /\ e > epoch(unwrap(tip))
          /\ prop' = Some(StreamletProposal(unwrap(tip), e))
    /\ UNCHANGED tip
    /\ UNCHANGED nonSlVars

\* proposal.add_signature(node_id);
AddSignature ==
    /\ is_some(prop)
    /\ \E id \in Signers : prop' = Some(add_signature(unwrap(prop), id))
    /\ UNCHANGED tip
    /\ UNCHANGED nonSlVars

\* let block = StreamletBlock { proposal: Box::new(proposal), parent };
\* with parent the current node or None
Package ==
    /\ is_some(prop)
    /\ \E p \in {None, tip} : tip' = Some(StreamletBlock(unwrap(prop), p))
    /\ prop' = None
    /\ UNCHANGED nonSlVars

\* the ledger part of the state when no ledger operation takes part in a run
InitLedgerIdle ==
    /\ heap = [h \in Handles |-> IF h = Live THEN Some(new) ELSE None]
    /\ snapRef = NullRef
    /\ overflow_checks = TRUE
    /\ panicked = FALSE
    /\ last = NoOp
    /\ accepted = [h \in Handles |-> <<>>]
    /\ consumed = [h \in Handles |-> [strict |-> {}, lenient |-> {}]]
    /\ applied = 0
    /\ step = 0

InitChain ==
    /\ InitLedgerIdle
    /\ InitSL

NextChain == Genesis \/ Propose \/ AddSignature \/ Package

SpecChain == InitChain /\ [][NextChain]_vars

(***************************************************************************)
(* Blocks built with the struct literal                                    *)
(*                                                                         *)
(* StreamletBlock has public fields and no constructor: a caller writes    *)
(* `StreamletBlock { proposal, parent }` with any proposal it holds (a     *)
(* clone of it) and any node it holds as parent.                           *)
(***************************************************************************)
MaxLinks == 2     \* largest number of Blocks under the parent given to a Block
MaxLinkEpoch == 2 \* largest epoch of a proposal packaged with the struct literal

\* the nodes a caller holds and may give as the parent of a Block: none, a
\* node of the chain built so far, or the Base of a genesis
BlockParents ==
    {None} \cup { Some(x) : x \in ParentChain(unwrap(tip)) }
           \cup { Some(StreamletGenesis(n)) : n \in 0..MaxNodes }

\* let proposal = StreamletProposal::new(Box::new(current.clone()), e);
BuildProposal ==
    /\ is_some(tip)
    /\ \E e \in 1..MaxLinkEpoch :
          LET r == proposal_new(unwrap(tip), e)
          IN  /\ r.ret = Returns
              /\ prop' = r.value
    /\ UNCHANGED tip
    /\ UNCHANGED nonSlVars

\* let current = Block(StreamletBlock { proposal: Box::new(proposal.clone()), parent });
BuildBlock ==
    /\ is_some(prop)
    /\ \E p \in BlockParents :
          /\ is_some(p) => Cardinality(BlocksOf(unwrap(p))) <= MaxLinks
          /\ tip' = Some(StreamletBlock(unwrap(prop), p))
    /\ UNCHANGED prop
    /\ UNCHANGED nonSlVars

NextBlocks == Genesis \/ BuildProposal \/ BuildBlock

SpecBlocks == InitChain /\ [][NextBlocks]_vars

(***************************************************************************)
(* The calls on one proposal, failing ones included                        *)
(***************************************************************************)
MaxN == 3         \* largest number of participants of the genesis under a proposal
MaxId == 3        \* largest node id passed to add_signature

NodeIds == 0..MaxId

\* the nodes a proposal is built on: a Base, a Block on a Base (with or
\* without Block.parent), a Proposal on a Base
ProposalParents ==
    LET bases == { StreamletGenesis(n) : n \in 0..MaxN }
    IN  bases
        \cup { StreamletBlock(StreamletProposal(b, e), IF linked THEN Some(b) ELSE None) :
                  b \in bases, e \in 1..2, linked \in BOOLEAN }
        \cup { StreamletProposal(b, 1) : b \in bases }

slPanicked == slLast.ret # Returns

\* let mut proposal = StreamletProposal::new(Box::new(current), e);
NewProposal ==
    /\ ~slPanicked
    /\ prop = None
    /\ \E e \in 0..MaxEpoch :
          LET r == proposal_new(unwrap(tip), e)
          IN  /\ prop' = r.value
              /\ slLast' = [op |-> "new", arg |-> e, ret |-> r.ret, pre |-> prop]
    /\ signed' = {}
    /\ UNCHANGED tip
    /\ UNCHANGED <<bcVars, gen, eqVars, netVars, nodeVars, simVars>>

\* proposal.add_signature(id);
Sign ==
    /\ ~slPanicked
    /\ is_some(prop)
    /\ \E id \in NodeIds :
          /\ prop' = Some(add_signature(unwrap(prop), id))
          /\ slLast' = [op |-> "add_signature", arg |-> id, ret |-> Returns, pre |-> prop]
          /\ signed' = signed \cup {id}
    /\ UNCHANGED tip
    /\ UNCHANGED <<bcVars, gen, eqVars, netVars, nodeVars, simVars>>

\* proposal.assert_notarized();
AssertNotarized ==
    /\ ~slPanicked
    /\ is_some(prop)
    /\ slLast' = [op |-> "assert_notarized", arg |-> 0,
                  ret |-> assert_notarized(unwrap(prop)), pre |-> prop]
    /\ UNCHANGED <<tip, prop, signed>>
    /\ UNCHANGED <<bcVars, gen, eqVars, netVars, nodeVars, simVars>>

InitProposal ==
    /\ InitLedgerIdle
    /\ tip \in { Some(p) : p \in ProposalParents }
    /\ prop = None
    /\ InitPP
    /\ gen = NoGenesis
    /\ InitEQ
    /\ InitNet
    /\ InitNodeHistory
    /\ InitSim
    /\ nd = [kind |-> "Passive", id |-> 0]

NextProposal == NewProposal \/ Sign \/ AssertNotarized

SpecProposal == InitProposal /\ [][NextProposal]_vars

(***************************************************************************)
(* Properties of the ledger                                                *)
(***************************************************************************)
LastTx == unwrap(last.tx)
LastPre == unwrap(last.pre[last.via])
LastPost == unwrap(heap[last.via])
Returned(b) == last.op = "apply" /\ last.ret = b

\* C1: whenever add_transaction returns false, the applied list, the UTXO
\* set, the notes map and total_issuance of the context are what they were
\* before the call.
C1_AllOrNothing ==
    Returned("false") =>
        /\ LastPost.transactions = LastPre.transactions
        /\ LastPost.utxo_set = LastPre.utxo_set
        /\ LastPost.notes = LastPre.notes
        /\ LastPost.total_issuance = LastPre.total_issuance

\* a rejected transaction whose UTXO update would have changed the context
C1_Witness ==
    /\ Returned("false")
    /\ update_utxo_set(LastPre.utxo_set, LastTx) # LastPre.utxo_set
    /\ update_notes(LastPre.notes, LastTx) # LastPre.notes

\* the validation predicates of a transaction against a context, as stated
ValidationPredicates(tx, context) ==
    /\ ~is_coinbase(tx) => tx.fee >= 0
    /\ ~is_coinbase(tx) => tx.issuance = 0
    /\ \A t \in Range(tx.transparent_inputs) : t \in context.utxo_set
    /\ \A n \in Range(tx.shielded_inputs) :
          n \in DOMAIN context.notes /\ context.notes[n] = Unspent
    /\ tx.shielded_inputs # <<>> =>
          /\ tx.anchor # None
          /\ \A n \in Range(tx.shielded_inputs) :
                n \in DOMAIN unwrap(tx.anchor).notes /\ unwrap(tx.anchor).notes[n] = Unspent

\* C2: add_transaction returns true exactly when all validation predicates
\* hold, and returns false in every other case.
C2_TrueIffValid ==
    last.op = "apply" =>
        /\ last.ret = "true" <=> ValidationPredicates(LastTx, LastPre)
        /\ ~ValidationPredicates(LastTx, LastPre) => last.ret = "false"

\* is_valid alone agrees with the stated predicates: add_transaction goes
\* past its early return exactly when they hold
IsValidMatchesPredicates ==
    last.op = "apply" => (last.ret # "false" <=> ValidationPredicates(LastTx, LastPre))

\* C3: after a successful apply every shielded output is Unspent, every
\* shielded input that is not an output is Spent, and no other note changes.
C3_NoteSpentness ==
    Returned("true") =>
        \A n \in Notes \cup DOMAIN LastPre.notes \cup DOMAIN LastPost.notes :
            LET ins == Range(LastTx.shielded_inputs)
                outs == Range(LastTx.shielded_outputs)
            IN  /\ n \in outs => n \in DOMAIN LastPost.notes /\ LastPost.notes[n] = Unspent
                /\ n \in ins \ outs =>
                      n \in DOMAIN LastPost.notes /\ LastPost.notes[n] = Spent
                /\ n \notin ins \cup outs =>
                      /\ n \in DOMAIN LastPost.notes <=> n \in DOMAIN LastPre.notes
                      /\ n \in DOMAIN LastPre.notes => LastPost.notes[n] = LastPre.notes[n]

\* a successful apply with a note both consumed and produced, beside another note
C3_Witness ==
    /\ Returned("true")
    /\ Range(LastTx.shielded_inputs) \cap Range(LastTx.shielded_outputs) # {}
    /\ \E n \in DOMAIN LastPre.notes : n \notin Range(LastTx.shielded_inputs)

\* is the mathematical sum of the issuance fields of txs equal to total
\* (computed on 16-bit halves, so that no intermediate value leaves the integers
\* of the checker)
RECURSIVE SumHigh(_, _)
SumHigh(txs, i) ==
    IF i > Len(txs) THEN 0 ELSE (txs[i].issuance \div 65536) + SumHigh(txs, i + 1)

RECURSIVE SumLow(_, _)
SumLow(txs, i) ==
    IF i > Len(txs) THEN 0 ELSE (txs[i].issuance % 65536) + SumLow(txs, i + 1)

IsSumOfIssuance(total, txs) ==
    /\ total \div 65536 = SumHigh(txs, 1) + (SumLow(txs, 1) \div 65536)
    /\ total % 65536 = SumLow(txs, 1) % 65536

\* C4: in every context reached from the empty one, total_issuance is the
\* sum of the issuance of the applied transactions, and the applied list is
\* the sequence of accepted transactions in order.
C4_IssuanceIsSum ==
    \A h \in Handles :
        is_some(heap[h]) =>
            /\ IsSumOfIssuance(unwrap(heap[h]).total_issuance, unwrap(heap[h]).transactions)
            /\ unwrap(heap[h]).transactions = accepted[h]

\* C5 as stated: with inputs distinct from outputs, the UTXO set changes size
\* by the number of outputs minus the number of inputs.
C5_ConservationAsStated ==
    (/\ Returned("true")
     /\ Range(LastTx.transparent_inputs) \cap Range(LastTx.transparent_outputs) = {}) =>
        Cardinality(LastPost.utxo_set) =
            Cardinality(LastPre.utxo_set) - Len(LastTx.transparent_inputs)
                + Len(LastTx.transparent_outputs)

\* C5 amended: with inputs distinct from outputs, the UTXO set changes size by
\* the number of distinct outputs not already in the set minus the number of
\* distinct inputs.
C5_Conservation ==
    (/\ Returned("true")
     /\ Range(LastTx.transparent_inputs) \cap Range(LastTx.transparent_outputs) = {}) =>
        Cardinality(LastPost.utxo_set) =
            Cardinality(LastPre.utxo_set) - Cardinality(Range(LastTx.transparent_inputs))
                + Cardinality(Range(LastTx.transparent_outputs) \ LastPre.utxo_set)

\* a successful spend of two distinct TXOs
C5_Witness ==
    /\ Returned("true")
    /\ Cardinality(Range(LastTx.transparent_inputs)) = 2
    /\ Cardinality(LastPost.utxo_set) = Cardinality(LastPre.utxo_set) - 2

\* C6 as stated: an apply listing as shielded input a note that a successful
\* apply consumed, with no successful apply listing it as output afterwards,
\* is rejected.
C6_NoDoubleSpendAsStated ==
    (last.op = "apply" /\ Range(LastTx.shielded_inputs) \cap last.blocked.strict # {}) =>
        last.ret = "false"

\* C6 amended: the same, where the outputs of the consuming apply itself count
\* as listing the note again.
C6_NoDoubleSpend ==
    (last.op = "apply" /\ Range(LastTx.shielded_inputs) \cap last.blocked.lenient # {}) =>
        last.ret = "false"

\* a second spend of a consumed note, with an anchor in which it is still
\* Unspent, is rejected
C6_Witness ==
    /\ Returned("false")
    /\ Range(LastTx.shielded_inputs) \cap last.blocked.lenient # {}
    /\ is_some(LastTx.anchor)
    /\ can_spend(unwrap(LastTx.anchor), LastTx.shielded_inputs)

\* C7: an apply through the live reference leaves the object behind the
\* snapshot reference unchanged, and an apply through the snapshot reference
\* leaves the live object unchanged.
C7_SnapshotIndependent ==
    (last.op = "apply" /\ snapRef # NullRef) =>
        /\ last.via = Live => heap[snapRef] = last.pre[snapRef]
        /\ last.via = snapRef => heap[Live] = last.pre[Live]

\* both objects have accepted a transaction since the snapshot was taken
C7_Witness ==
    /\ snapRef # NullRef
    /\ Returned("true")
    /\ heap[last.via] # last.pre[last.via]
    /\ heap[Live] # heap[snapRef]
    /\ Len(unwrap(heap[Live]).transactions) >= 2
    /\ Len(unwrap(heap[Snap]).transactions) >= 2

\* C8: in the shielding/deshielding scenario every apply succeeds, and at the
\* end total_issuance is 20, note 8 is Spent and notes 6 and 7 are Unspent.
C8_Scenario ==
    /\ last.op = "apply" => last.ret = "true"
    /\ step = 8 =>
          LET ctx == unwrap(heap[Live])
          IN  /\ ctx.total_issuance = 20
              /\ Len(ctx.transactions) = 7
              /\ DOMAIN ctx.notes = {Note(6), Note(7), Note(8)}
              /\ ctx.notes[Note(8)] = Spent
              /\ ctx.notes[Note(6)] = Unspent
              /\ ctx.notes[Note(7)] = Unspent

\* the scenario has run to its end
C8_Witness == step = 8 /\ Returned("true") /\ is_spent(unwrap(heap[Live]), Note(8))

(***************************************************************************)
(* Properties of the Streamlet chain                                       *)
(***************************************************************************)
\* the chain ends in three Blocks B1, B2, B3 = b linked by Block.parent with
\* epochs e, e+1, e+2
ThreeConsecutive(b) ==
    /\ b.kind = "Block"
    /\ is_some(b.parent) /\ unwrap(b.parent).kind = "Block"
    /\ is_some(unwrap(b.parent).parent)
    /\ unwrap(unwrap(b.parent).parent).kind = "Block"
    /\ epoch(unwrap(unwrap(b.parent).parent)) + 1 = epoch(unwrap(b.parent))
    /\ epoch(unwrap(b.parent)) + 1 = epoch(b)

C10_FinalityStable ==
    \A b2 \in (IF is_some(tip) THEN BlocksOf(unwrap(tip)) ELSE {}) :
        \A b \in BlocksOf(b2) :
            /\ last_final(b2) \in ParentChain(b2)
            /\ \/ last_final(b2) = last_final(b)
               \/ last_final(b) \in ProperAncestors(last_final(b2))

\* the Blocks of the chain built so far
ChainBlocks == IF is_some(tip) THEN BlocksOf(unwrap(tip)) ELSE {}

\* C11: for every Block whose parent is none, last_final() is that Block
\* itself, whatever its proposal and epoch.
C11_RootIsFinal ==
    \A b \in ChainBlocks : is_none(b.parent) => last_final(b) = b

\* a Block without parent, packaged from a proposal of epoch at least 3 that
\* extends a chain of three Blocks of consecutive epochs
C11_Witness ==
    /\ is_some(tip)
    /\ unwrap(tip).kind = "Block"
    /\ is_none(unwrap(tip).parent)
    /\ epoch(unwrap(tip)) >= 3
    /\ unwrap(tip).proposal.parent.kind = "Block"
    /\ ThreeConsecutive(unwrap(tip).proposal.parent)

\* C12: for every Block whose direct parent is not a Block, last_final() is
\* that parent; when the parent is the Base genesis, the result is a Base of
\* epoch 0 equal to the last_final() of the genesis.
C12_BaseParentIsFinal ==
    \A b \in ChainBlocks :
        (is_some(b.parent) /\ unwrap(b.parent).kind # "Block") =>
            /\ last_final(b) = unwrap(b.parent)
            /\ unwrap(b.parent).kind = "Base" =>
                  /\ last_final(b).kind = "Base"
                  /\ epoch(last_final(b)) = 0
                  /\ last_final(b) = enum_last_final(unwrap(b.parent))
                  /\ \E n \in 0..MaxNodes : last_final(b) = StreamletGenesis(n)

\* the chain Base -> Block(e = 1), the Block packaged from a signed proposal
C12_Witness ==
    /\ is_some(tip)
    /\ unwrap(tip).kind = "Block"
    /\ epoch(unwrap(tip)) = 1
    /\ is_some(unwrap(tip).parent)
    /\ unwrap(unwrap(tip).parent).kind = "Base"
    /\ unwrap(tip).proposal.signatures # {}

(***************************************************************************)
(* crates/bft/src/event_queue.rs                                           *)
(*                                                                         *)
(* EventQueue.queue is a std::collections::BinaryHeap<Event>: a vector     *)
(* kept in heap order by sift_up on push and sift_down_to_bottom on pop,   *)
(* comparing events with the Ord of Event. Position p of the vector is     *)
(* element p + 1 of the sequence.                                          *)
(***************************************************************************)
MaxEvents == 6    \* number of events scheduled in a run
MaxTime == 3      \* largest timestamp of a scheduled event

\* the message envelope {content, timestamp}
Message(content, timestamp) == [content |-> content, timestamp |-> timestamp]

Event(timestamp, sender, receiver, message) ==
    [timestamp |-> timestamp, sender |-> sender, receiver |-> receiver, message |-> message]

\* a mutation of cmp: the order of the timestamps, not reversed
cmp_not_reversed(self, other) ==
    IF self.timestamp < other.timestamp THEN "Less"
    ELSE IF self.timestamp = other.timestamp THEN "Equal"
    ELSE "Greater"

\* impl Ord for Event: other.timestamp.cmp(&self.timestamp)
cmp(self, other) ==
    IF other.timestamp < self.timestamp THEN "Less"
    ELSE IF other.timestamp = self.timestamp THEN "Equal"
    ELSE "Greater"

\* a <= b, from PartialOrd by way of cmp
le(a, b) == cmp(a, b) # "Greater"

\* BinaryHeap::sift_up: the element elt of the hole at pos moves towards
\* start while it is greater than its parent
RECURSIVE sift_up(_, _, _, _)
sift_up(data, start, pos, elt) ==
    IF pos > start
    THEN LET parent_pos == (pos - 1) \div 2
         IN  IF le(elt, data[parent_pos + 1])
             THEN [data EXCEPT ![pos + 1] = elt]
             ELSE sift_up([data EXCEPT ![pos + 1] = data[parent_pos + 1]],
                          start, parent_pos, elt)
    ELSE [data EXCEPT ![pos + 1] = elt]

\* BinaryHeap::sift_down_to_bottom: the hole at pos moves to the bottom along
\* the greater children (the right one when they are equal), then the element
\* is sifted up from there
RECURSIVE sift_down_to_bottom(_, _, _)
sift_down_to_bottom(data, pos, elt) ==
    LET end == Len(data)
        child == 2 * pos + 1
    IN  IF child <= end - 2
        THEN LET c == IF le(data[child + 1], data[child + 2]) THEN child + 1 ELSE child
             IN  sift_down_to_bottom([data EXCEPT ![pos + 1] = data[c + 1]], c, elt)
        ELSE IF child = end - 1
        THEN sift_up([data EXCEPT ![pos + 1] = data[child + 1]], 0, child, elt)
        ELSE sift_up(data, 0, pos, elt)

\* EventQueue::schedule: self.queue.push(event)
schedule(queue, event) == sift_up(Append(queue, event), 0, Len(queue), event)

\* EventQueue::process_next_event: self.queue.pop(). The last element of the
\* vector is removed; if others remain it takes the place of the root, which
\* is returned.
process_next_event(queue) ==
    IF queue = <<>> THEN [queue |-> queue, item |-> None]
    ELSE LET item == queue[Len(queue)]
             rest == SubSeq(queue, 1, Len(queue) - 1)
         IN  IF rest = <<>> THEN [queue |-> rest, item |-> Some(item)]
             ELSE [queue |-> sift_down_to_bottom(rest, 0, item), item |-> Some(rest[1])]

\* EventQueue::is_empty
is_empty(queue) == queue = <<>>

\* seq without its first element equal to x
RECURSIVE without(_, _)
without(seq, x) ==
    IF seq = <<>> THEN <<>>
    ELSE IF Head(seq) = x THEN Tail(seq)
    ELSE <<Head(seq)>> \o without(Tail(seq), x)

\* event_queue.schedule(Event { timestamp: ts, .. }); the content of the
\* message tells the events apart
Schedule ==
    /\ scheduled < MaxEvents
    /\ \E ts \in 1..MaxTime :
          LET event == Event(ts, 0, 0, Message(scheduled + 1, ts))
          IN  /\ event_queue' = schedule(event_queue, event)
              /\ pending' = Append(pending, event)
    /\ scheduled' = scheduled + 1
    /\ eqLast' = [op |-> "schedule", ret |-> None, pre |-> pending, prev |-> None]
    /\ UNCHANGED <<bcVars, slVars, ppVars, gen, netVars, nodeVars, simVars>>

\* event_queue.process_next_event()
ProcessNextEvent ==
    /\ LET r == process_next_event(event_queue)
       IN  /\ event_queue' = r.queue
           /\ pending' = IF is_some(r.item) THEN without(pending, unwrap(r.item)) ELSE pending
           /\ eqLast' = [op |-> "pop", ret |-> r.item, pre |-> pending,
                         prev |-> IF eqLast.op = "pop" THEN eqLast.ret ELSE None]
    /\ UNCHANGED scheduled
    /\ UNCHANGED <<bcVars, slVars, ppVars, gen, netVars, nodeVars, simVars>>

InitQueue ==
    /\ InitLedgerIdle
    /\ InitSL

NextQueue == Schedule \/ ProcessNextEvent

SpecQueue == InitQueue /\ [][NextQueue]_vars

(***************************************************************************)
(* crates/bft/src/network.rs                                               *)
(*                                                                         *)
(* senders and receivers map a node id to the two ends of one unbounded    *)
(* channel; channels[id] is the content of that channel, oldest first.     *)
(***************************************************************************)
MaxNetNodes == 1  \* number of nodes registered in a run
MaxSends == 3     \* number of events scheduled by send in a run
MaxDelay == 1     \* largest delay passed to send

\* the timestamps of the messages handed to send
MessageTimestamps == {1}

\* the node ids passed to send and receive, registered or not
NetIds == {0, 1, 2}

\* Network::add_node
add_node(network) ==
    LET id == Cardinality(network.senders)
    IN  [net |-> [senders |-> network.senders \cup {id},
                  receivers |-> network.receivers \cup {id},
                  channels |-> [i \in DOMAIN network.channels \cup {id} |->
                                   IF i = id THEN <<>> ELSE network.channels[i]]],
         id |-> id]

TargetMissing == "Error: Target node does not exist."
SenderMissing == "Error: Sender node does not exist."
ReceiverMissing == "Error: Receiver node does not exist."

\* a mutation of send: the target is not looked up
send_any_target(network, queue, sender_id, target_id, message, delay) ==
    IF sender_id \in network.senders
    THEN LET stamped == [message EXCEPT !.timestamp = @ + delay]
         IN  [net |-> network,
              queue |-> schedule(queue,
                                 Event(stamped.timestamp, sender_id, target_id, stamped)),
              error |-> None]
    ELSE [net |-> network, queue |-> queue, error |-> Some(SenderMissing)]

\* Network::send: the network and the event queue after the call, and the
\* error it logged
send(network, queue, sender_id, target_id, message, delay) ==
    IF sender_id \in network.senders
    THEN IF target_id \in network.receivers
         THEN LET stamped == [message EXCEPT !.timestamp = @ + delay]
              IN  [net |-> network,
                   queue |-> schedule(queue,
                                      Event(stamped.timestamp, sender_id, target_id, stamped)),
                   error |-> None]
         ELSE [net |-> network, queue |-> queue, error |-> Some(TargetMissing)]
    ELSE [net |-> network, queue |-> queue, error |-> Some(SenderMissing)]

\* a mutation of process_events: one event is popped, not all of them
process_events_once(network, queue) ==
    IF is_empty(queue) THEN [net |-> network, queue |-> queue]
    ELSE LET r == process_next_event(queue)
             event == unwrap(r.item)
         IN  IF event.receiver \in network.senders
             THEN [net |-> [network EXCEPT !.channels[event.receiver] =
                                               Append(@, event.message)],
                   queue |-> r.queue]
             ELSE [net |-> network, queue |-> r.queue]

\* Network::process_events: the loop pops until the queue is empty and sends
\* each message into the channel of its receiver
RECURSIVE process_events(_, _)
process_events(network, queue) ==
    IF is_empty(queue) THEN [net |-> network, queue |-> queue]
    ELSE LET r == process_next_event(queue)
             event == unwrap(r.item)
         IN  IF event.receiver \in network.senders
             THEN process_events(
                      [network EXCEPT !.channels[event.receiver] = Append(@, event.message)],
                      r.queue)
             ELSE process_events(network, r.queue)

\* the events process_events pops whose receiver has a channel, in the order
\* of its `tx.send(event.message)` calls
RECURSIVE pushed(_, _)
pushed(network, queue) ==
    IF is_empty(queue) THEN <<>>
    ELSE LET r == process_next_event(queue)
             event == unwrap(r.item)
         IN  IF event.receiver \in network.senders
             THEN <<event>> \o pushed(network, r.queue)
             ELSE pushed(network, r.queue)

\* Network::receive: `rx.recv().ok()` for a registered id, None otherwise.
\* recv takes the oldest message of the channel; on an empty channel it waits
\* for a send, and returns an error only once every Sender is dropped. The
\* Sender is held in self.senders, and send and process_events need the
\* Network exclusively, so a call on an empty channel does not return.
receive(network, node_id) ==
    IF node_id \in network.receivers
    THEN IF network.channels[node_id] # <<>>
         THEN [net |-> [network EXCEPT !.channels[node_id] = Tail(@)],
               ret |-> "returned", value |-> Some(Head(network.channels[node_id]))]
         ELSE [net |-> network, ret |-> "blocked", value |-> None]
    ELSE [net |-> network, ret |-> "returned", value |-> None]

\* the caller is inside a call that has not returned
netBlocked == netLast.ret # "returned"

\* network.add_node()
AddNode ==
    /\ ~netBlocked
    /\ Cardinality(net.senders) < MaxNetNodes
    /\ LET r == add_node(net)
       IN  /\ net' = r.net
           /\ netLast' = [op |-> "add_node", sender_id |-> 0, target_id |-> 0,
                          ret |-> "returned", value |-> Some(r.id),
                          pre |-> net, pre_queue |-> event_queue]
    /\ UNCHANGED <<event_queue, pending, scheduled, eqLast>>
    /\ UNCHANGED <<bcVars, slVars, ppVars, gen, nodeVars, simVars>>

\* network.send(sender_id, target_id, message, delay)
Send ==
    /\ ~netBlocked
    /\ scheduled < MaxSends
    /\ \E sender_id \in NetIds, target_id \in NetIds,
          ts \in MessageTimestamps, delay \in 0..MaxDelay :
          LET r == send(net, event_queue, sender_id, target_id,
                        Message(scheduled + 1, ts), delay)
          IN  /\ net' = r.net
              /\ event_queue' = r.queue
              /\ pending' = IF Len(r.queue) > Len(event_queue)
                             THEN Append(pending,
                                         Event(ts + delay, sender_id, target_id,
                                               Message(scheduled + 1, ts + delay)))
                             ELSE pending
              /\ netLast' = [op |-> "send", sender_id |-> sender_id, target_id |-> target_id,
                             ret |-> "returned", value |-> r.error,
                             pre |-> net, pre_queue |-> event_queue]
              /\ scheduled' = IF Len(r.queue) > Len(event_queue)
                               THEN scheduled + 1 ELSE scheduled
    /\ UNCHANGED eqLast
    /\ UNCHANGED <<bcVars, slVars, ppVars, gen, nodeVars, simVars>>

\* network.process_events()
ProcessEvents ==
    /\ ~netBlocked
    /\ LET r == process_events(net, event_queue)
       IN  /\ net' = r.net
           /\ event_queue' = r.queue
    /\ pending' = <<>>
    /\ netLast' = [op |-> "process_events", sender_id |-> 0, target_id |-> 0,
                   ret |-> "returned", value |-> None,
                   pre |-> net, pre_queue |-> event_queue]
    /\ UNCHANGED <<scheduled, eqLast>>
    /\ UNCHANGED <<bcVars, slVars, ppVars, gen, nodeVars, simVars>>

\* network.receive(node_id)
Receive ==
    /\ ~netBlocked
    /\ \E node_id \in NetIds :
          LET r == receive(net, node_id)
          IN  /\ net' = r.net
              /\ netLast' = [op |-> "receive", sender_id |-> 0, target_id |-> node_id,
                             ret |-> r.ret, value |-> r.value,
                             pre |-> net, pre_queue |-> event_queue]
    /\ UNCHANGED <<event_queue, pending, scheduled, eqLast>>
    /\ UNCHANGED <<bcVars, slVars, ppVars, gen, nodeVars, simVars>>

InitNetwork ==
    /\ InitLedgerIdle
    /\ InitSL

NextNetwork == AddNode \/ Send \/ ProcessEvents \/ Receive

SpecNetwork == InitNetwork /\ [][NextNetwork]_vars

(***************************************************************************)
(* StreamletGenesis::new on usize                                          *)
(*                                                                         *)
(* A usize is 64 bits wide. It is modelled as four limbs of 16 bits, least *)
(* significant first, so that the arithmetic of `(n * 2 + 2) / 3` keeps    *)
(* its width; a longer sequence of limbs holds an exact value.             *)
(***************************************************************************)
MaxSmallN == 40   \* largest small number of participants tried
MaxAround == 8    \* how far around 2^63 and below 2^64 participants are tried

\* the usize of a small natural number
usize(k) == <<k % 65536, (k \div 65536) % 65536, 0, 0>>

\* x * m + c for a small m, exact: one limb longer than x
RECURSIVE mul_limbs(_, _, _, _)
mul_limbs(x, i, m, c) ==
    IF i > Len(x) THEN <<c>>
    ELSE LET v == x[i] * m + c
         IN  <<v % 65536>> \o mul_limbs(x, i + 1, m, v \div 65536)

\* x + c for a small c, exact: one limb longer than x
add_limbs(x, c) == mul_limbs(x, 1, 1, c)

\* x / d for a small d (the limbs are taken from the most significant one)
RECURSIVE div_limbs(_, _, _, _)
div_limbs(x, i, r, d) ==
    IF i = 0 THEN <<>>
    ELSE LET cur == r * 65536 + x[i]
         IN  div_limbs(x, i - 1, cur % d, d) \o <<cur \div d>>

\* the low 64 bits of an exact value, and whether it fits in them
low64(x) == SubSeq(x, 1, 4)
fits64(x) == \A i \in 5..Len(x) : x[i] = 0

\* x with zero limbs added up to length k
pad(x, k) == x \o [i \in 1..(k - Len(x)) |-> 0]

\* a <= b for exact values of the same length
RECURSIVE limbs_le(_, _, _)
limbs_le(a, b, i) ==
    IF i = 0 THEN TRUE
    ELSE IF a[i] # b[i] THEN a[i] < b[i]
    ELSE limbs_le(a, b, i - 1)

MulOverflow == "panic: attempt to multiply with overflow"
AddOverflow == "panic: attempt to add with overflow"

\* StreamletGenesis::new(n): `let t = (n * 2 + 2) / 3; Self { n, t }`.
\* With overflow checks `n * 2` and `+ 2` panic when the result does not fit;
\* without, each wraps modulo 2^64.
genesis_new(n, checks) ==
    LET doubled == mul_limbs(n, 1, 2, 0)
        plus2 == add_limbs(low64(doubled), 2)
    IN  IF checks /\ ~fits64(doubled)
        THEN [n |-> n, ret |-> MulOverflow, value |-> None, last_final |-> None]
        ELSE IF checks /\ ~fits64(plus2)
        THEN [n |-> n, ret |-> AddOverflow, value |-> None, last_final |-> None]
        ELSE [n |-> n, ret |-> Returns,
              value |-> Some([n |-> n, t |-> div_limbs(low64(plus2), 4, 0, 3)]),
              last_final |-> None]

\* StreamletGenesis::last_final
genesis_last_final(self) == [kind |-> "Base", n |-> self.n, t |-> self.t, parent |-> None]

\* numbers of participants: small ones, and those around 2^63 and below 2^64
GenesisSizes ==
    { usize(k) : k \in 0..MaxSmallN }
        \cup { <<65535 - k, 65535, 65535, 32767>> : k \in 0..MaxAround }
        \cup { <<k, 0, 0, 32768>> : k \in 0..MaxAround }
        \cup { <<65535 - k, 65535, 65535, 65535>> : k \in 0..MaxAround }

\* let genesis = StreamletGenesis::new(n);
GenesisNew ==
    /\ gen.ret = "none"
    /\ \E n \in GenesisSizes : gen' = genesis_new(n, overflow_checks)
    /\ UNCHANGED <<heap, snapRef, overflow_checks, panicked, last, accepted, consumed,
                   applied, step>>
    /\ UNCHANGED <<slVars, ppVars, eqVars, netVars, nodeVars, simVars>>

\* let current = genesis.last_final();
GenesisLastFinal ==
    /\ gen.ret = Returns
    /\ gen.last_final = None
    /\ gen' = [gen EXCEPT !.last_final = Some(genesis_last_final(unwrap(gen.value)))]
    /\ UNCHANGED <<bcVars, slVars, ppVars, eqVars, netVars, nodeVars, simVars>>

InitGenesis ==
    /\ heap = [h \in Handles |-> IF h = Live THEN Some(new) ELSE None]
    /\ snapRef = NullRef
    /\ overflow_checks \in BOOLEAN
    /\ panicked = FALSE
    /\ last = NoOp
    /\ accepted = [h \in Handles |-> <<>>]
    /\ consumed = [h \in Handles |-> [strict |-> {}, lenient |-> {}]]
    /\ applied = 0
    /\ step = 0
    /\ InitSL

NextGenesis == GenesisNew \/ GenesisLastFinal

SpecGenesis == InitGenesis /\ [][NextGenesis]_vars

(***************************************************************************)
(* crates/bft/src/node.rs                                                  *)
(*                                                                         *)
(* A `dyn Node` is a record tagged by kind. The u64 of a clock or of the   *)
(* timestamp of a handled message is four limbs of 16 bits, as a usize.    *)
(***************************************************************************)
MaxHandled == 2   \* number of handle calls on the node in a run
MaxActs == 2      \* number of propose, vote and finalize calls in a run

u64(k) == usize(k)
U64Max == <<65535, 65535, 65535, 65535>>

\* u64::max
u64_max(a, b) == IF limbs_le(a, b, 4) THEN b ELSE a

NotImplemented == "panic: not yet implemented"

\* what a future yielded by run logs when it is awaited
Effect(id, sender, message) == [id |-> id, sender |-> sender, message |-> message]

\* PassiveNode::new, SequentialNode::new, HonestNode::new, ByzantineNode::new
passive_new(id) == [kind |-> "Passive", id |-> id]
sequential_new(id) == [kind |-> "Sequential", id |-> id, mailbox |-> <<>>]
honest_new(id) ==
    [kind |-> "Honest", id |-> id, mailbox |-> <<>>, proposals |-> <<>>,
     votes |-> <<>>, finalized |-> None, clock |-> u64(0)]
byzantine_new(id) == [kind |-> "Byzantine", id |-> id]

\* HonestNode::increment_clock: `self.clock += 1`
increment_clock(self, checks) ==
    LET sum == add_limbs(self.clock, 1)
    IN  IF checks /\ ~fits64(sum)
        THEN [node |-> self, ret |-> AddOverflow]
        ELSE [node |-> [self EXCEPT !.clock = low64(sum)], ret |-> Returns]

\* HonestNode::update_clock: `self.clock = self.clock.max(other_clock) + 1`
update_clock(self, other_clock, checks) ==
    LET sum == add_limbs(u64_max(self.clock, other_clock), 1)
    IN  IF checks /\ ~fits64(sum)
        THEN [node |-> self, ret |-> AddOverflow]
        ELSE [node |-> [self EXCEPT !.clock = low64(sum)], ret |-> Returns]

\* Node::handle. The future it returns is dropped or awaited by the caller;
\* only the one of PassiveNode does something (it logs).
handle(self, sender, message, checks) ==
    CASE self.kind = "Sequential" ->
             [node |-> [self EXCEPT !.mailbox = Append(@, <<sender, message>>)],
              ret |-> Returns]
      [] self.kind = "Honest" ->
             LET r == update_clock(self, message.timestamp, checks)
             IN  IF r.ret # Returns THEN r
                 ELSE [node |-> [r.node EXCEPT !.mailbox = Append(@, <<sender, message>>)],
                       ret |-> Returns]
      [] OTHER -> [node |-> self, ret |-> Returns]

\* a mutation of run_next: the newest message is taken
run_next_newest(self) ==
    IF self.kind \in {"Sequential", "Honest"} /\ self.mailbox # <<>>
    THEN [node |-> [self EXCEPT !.mailbox = SubSeq(@, 1, Len(@) - 1)],
          item |-> Some(Effect(self.id, self.mailbox[Len(self.mailbox)][1],
                               self.mailbox[Len(self.mailbox)][2]))]
    ELSE [node |-> self, item |-> None]

\* one `next()` on the iterator Node::run returns: the closure of from_fn
\* pops the front of the mailbox; the iterator of a Passive or Byzantine node
\* is empty
run_next(self) ==
    IF self.kind \in {"Sequential", "Honest"} /\ self.mailbox # <<>>
    THEN [node |-> [self EXCEPT !.mailbox = Tail(@)],
          item |-> Some(Effect(self.id, Head(self.mailbox)[1], Head(self.mailbox)[2]))]
    ELSE [node |-> self, item |-> None]

\* `node.run().collect()`: next() until it returns None
RECURSIVE run_collect(_)
run_collect(self) ==
    LET r == run_next(self)
    IN  IF is_none(r.item) THEN [node |-> self, items |-> <<>>]
        ELSE LET rest == run_collect(r.node)
             IN  [node |-> rest.node, items |-> r.item \o rest.items]

\* Node::propose
propose(self, value, checks) ==
    CASE self.kind = "Honest" ->
             LET r == increment_clock(self, checks)
             IN  IF r.ret # Returns THEN r
                 ELSE [node |-> [r.node EXCEPT !.proposals = Append(@, value)],
                       ret |-> Returns]
      [] self.kind = "Byzantine" -> [node |-> self, ret |-> Returns]
      [] OTHER -> [node |-> self, ret |-> NotImplemented]

\* Node::vote; the HashMap votes is a function from the proposal ids that
\* have an entry
vote(self, proposal_id, value) ==
    CASE self.kind = "Honest" ->
             [node |-> [self EXCEPT !.votes =
                           [p \in DOMAIN self.votes \cup {proposal_id} |->
                               IF p = proposal_id
                               THEN IF p \in DOMAIN self.votes
                                    THEN Append(self.votes[p], value)
                                    ELSE <<value>>
                               ELSE self.votes[p]]],
              ret |-> Returns]
      [] self.kind = "Byzantine" -> [node |-> self, ret |-> Returns]
      [] OTHER -> [node |-> self, ret |-> NotImplemented]

\* a mutation of finalize: the value is returned and not stored
finalize_not_stored(self, proposal) ==
    CASE self.kind = "Honest" ->
             [node |-> self, ret |-> Returns, value |-> Some(proposal)]
      [] self.kind = "Byzantine" -> [node |-> self, ret |-> Returns, value |-> None]
      [] OTHER -> [node |-> self, ret |-> NotImplemented, value |-> None]

\* Node::finalize: the node after the call and the output of the future
finalize(self, proposal) ==
    CASE self.kind = "Honest" ->
             [node |-> [self EXCEPT !.finalized = Some(proposal)],
              ret |-> Returns, value |-> Some(proposal)]
      [] self.kind = "Byzantine" -> [node |-> self, ret |-> Returns, value |-> None]
      [] OTHER -> [node |-> self, ret |-> NotImplemented, value |-> None]

(***************************************************************************)
(* One node and its caller                                                 *)
(*                                                                         *)
(* The iterator of run borrows the node: no other call on the node is      *)
(* made while it is alive. The caller may drop it before its end.          *)
(***************************************************************************)
\* the timestamps of the messages handed to handle
NodeTimestamps == {u64(0), u64(2), <<65534, 65535, 65535, 65535>>, U64Max}

NodeSenders == {1}
NodeValues == {"a", "b"}
NodeProposalIds == {0, 1}

\* the process has panicked in a call on the node
nodePanicked == nodeLast.ret # Returns

\* node.handle(sender, message)
NodeHandle ==
    /\ ~nodePanicked
    /\ iter = "none"
    /\ Len(handled) < MaxHandled
    /\ \E sender \in NodeSenders, ts \in NodeTimestamps :
          LET message == Message(Len(handled) + 1, ts)
              r == handle(nd, sender, message, overflow_checks)
          IN  /\ nd' = r.node
              /\ handled' = IF r.ret = Returns
                             THEN Append(handled, <<sender, message>>)
                             ELSE handled
              /\ nodeLast' = [op |-> "handle", arg |-> Some(message), ret |-> r.ret,
                              value |-> None, pre |-> Some(nd)]
    /\ UNCHANGED <<iter, effects, acts>>
    /\ UNCHANGED <<bcVars, slVars, ppVars, gen, eqVars, netVars, simVars>>

\* let mut effects = node.run();
NodeRun ==
    /\ ~nodePanicked
    /\ iter = "none"
    /\ iter' = "live"
    /\ nodeLast' = [op |-> "run", arg |-> None, ret |-> Returns, value |-> None,
                    pre |-> Some(nd)]
    /\ UNCHANGED <<nd, handled, effects, acts>>
    /\ UNCHANGED <<bcVars, slVars, ppVars, gen, eqVars, netVars, simVars>>

\* effects.next()
NodeRunNext ==
    /\ ~nodePanicked
    /\ iter = "live"
    /\ LET r == run_next(nd)
       IN  /\ nd' = r.node
           /\ effects' = effects \o r.item
           /\ nodeLast' = [op |-> "next", arg |-> None, ret |-> Returns,
                           value |-> r.item, pre |-> Some(nd)]
    /\ UNCHANGED <<iter, handled, acts>>
    /\ UNCHANGED <<bcVars, slVars, ppVars, gen, eqVars, netVars, simVars>>

\* drop(effects): at its end or before
NodeRunDrop ==
    /\ ~nodePanicked
    /\ iter = "live"
    /\ iter' = "none"
    /\ nodeLast' = [op |-> "drop", arg |-> None, ret |-> Returns, value |-> None,
                    pre |-> Some(nd)]
    /\ UNCHANGED <<nd, handled, effects, acts>>
    /\ UNCHANGED <<bcVars, slVars, ppVars, gen, eqVars, netVars, simVars>>

\* node.propose(value)
NodePropose ==
    /\ ~nodePanicked
    /\ iter = "none"
    /\ acts < MaxActs
    /\ \E value \in NodeValues :
          LET r == propose(nd, value, overflow_checks)
          IN  /\ nd' = r.node
              /\ nodeLast' = [op |-> "propose", arg |-> Some(value), ret |-> r.ret,
                              value |-> None, pre |-> Some(nd)]
    /\ acts' = acts + 1
    /\ UNCHANGED <<iter, handled, effects>>
    /\ UNCHANGED <<bcVars, slVars, ppVars, gen, eqVars, netVars, simVars>>

\* node.vote(proposal_id, value)
NodeVote ==
    /\ ~nodePanicked
    /\ iter = "none"
    /\ acts < MaxActs
    /\ \E proposal_id \in NodeProposalIds, value \in NodeValues :
          LET r == vote(nd, proposal_id, value)
          IN  /\ nd' = r.node
              /\ nodeLast' = [op |-> "vote", arg |-> Some(value), ret |-> r.ret,
                              value |-> None, pre |-> Some(nd)]
    /\ acts' = acts + 1
    /\ UNCHANGED <<iter, handled, effects>>
    /\ UNCHANGED <<bcVars, slVars, ppVars, gen, eqVars, netVars, simVars>>

\* node.finalize(value)
NodeFinalize ==
    /\ ~nodePanicked
    /\ iter = "none"
    /\ acts < MaxActs
    /\ \E value \in NodeValues :
          LET r == finalize(nd, value)
          IN  /\ nd' = r.node
              /\ nodeLast' = [op |-> "finalize", arg |-> Some(value), ret |-> r.ret,
                              value |-> r.value, pre |-> Some(nd)]
    /\ acts' = acts + 1
    /\ UNCHANGED <<iter, handled, effects>>
    /\ UNCHANGED <<bcVars, slVars, ppVars, gen, eqVars, netVars, simVars>>

\* let mut node = PassiveNode::new(id), SequentialNode::new(id),
\* HonestNode::new(id) or ByzantineNode::new(id)
InitOneNode ==
    /\ heap = [h \in Handles |-> IF h = Live THEN Some(new) ELSE None]
    /\ InitHistory
    /\ InitBft
    /\ nd \in {passive_new(0), sequential_new(0), honest_new(0), byzantine_new(0)}

NextNode ==
    NodeHandle \/ NodeRun \/ NodeRunNext \/ NodeRunDrop \/ NodePropose \/ NodeVote
        \/ NodeFinalize

SpecNode == InitOneNode /\ [][NextNode]_vars

(***************************************************************************)
(* crates/bft/src/simulation.rs                                            *)
(*                                                                         *)
(* The Simulation owns the Network (net, event_queue) and the nodes. The   *)
(* loop of start is followed point by point: pc is "check" at the test of  *)
(* the event queue, "drain" before process_events, "run" inside            *)
(* `for node in &self.nodes`, "returned" after the loop.                   *)
(***************************************************************************)
MaxSimNodes == 1  \* number of nodes added to the simulation
MaxSimSends == 2  \* number of events scheduled before start

\* the ids and delays the driver passes to network.send before start
SimSenders == {0}
SimIds == {0, 1}
SimDelays == {0, 1}

\* the message add_node hands to the new node:
\* Message { content: format!("Node {} initialized.", node_id), timestamp: 0 }
initialized(node_id) == Message(<<"Node initialized.", node_id>>, u64(0))

\* Simulation::add_node: the network, the nodes and the id after the call
sim_add_node(network, sim_nodes, new_node, checks) ==
    LET r == add_node(network)
        h == handle(new_node, 0, initialized(r.id), checks)
    IN  [net |-> r.net, id |-> r.id, ret |-> h.ret,
         nodes |-> IF h.ret = Returns THEN Append(sim_nodes, h.node) ELSE sim_nodes]

\* a mutation of start_breaks: the loop is never left
start_never_breaks(queue) == FALSE

\* Simulation::start, `if network.event_queue.is_empty() { break; }`
start_breaks(queue) == is_empty(queue)

\* the nodes a caller hands to add_node
NewNodes(id) == {passive_new(id), sequential_new(id), honest_new(id), byzantine_new(id)}

\* simulation.add_node(node)
SimAddNode ==
    /\ pc = "idle"
    /\ Len(nodes) < MaxSimNodes
    /\ \E new_node \in NewNodes(Len(nodes)) :
          LET r == sim_add_node(net, nodes, new_node, overflow_checks)
          IN  /\ net' = r.net
              /\ nodes' = r.nodes
              /\ netLast' = [op |-> "add_node", sender_id |-> 0, target_id |-> 0,
                             ret |-> "returned", value |-> Some(r.id),
                             pre |-> net, pre_queue |-> event_queue]
    /\ UNCHANGED <<pc, cursor, awaited, started>>
    /\ UNCHANGED <<event_queue, pending, scheduled, eqLast>>
    /\ UNCHANGED <<bcVars, slVars, ppVars, gen, nodeVars>>

\* simulation.network.lock().unwrap().send(sender_id, target_id, message, delay)
SimSend ==
    /\ pc = "idle"
    /\ scheduled < MaxSimSends
    /\ \E sender_id \in SimSenders, target_id \in SimIds, delay \in SimDelays :
          LET r == send(net, event_queue, sender_id, target_id,
                        Message(scheduled + 1, 1), delay)
          IN  /\ Len(r.queue) > Len(event_queue)
              /\ net' = r.net
              /\ event_queue' = r.queue
              /\ pending' = Append(pending,
                                   Event(1 + delay, sender_id, target_id,
                                         Message(scheduled + 1, 1 + delay)))
              /\ netLast' = [op |-> "send", sender_id |-> sender_id, target_id |-> target_id,
                             ret |-> "returned", value |-> r.error,
                             pre |-> net, pre_queue |-> event_queue]
    /\ scheduled' = scheduled + 1
    /\ UNCHANGED eqLast
    /\ UNCHANGED simVars
    /\ UNCHANGED <<bcVars, slVars, ppVars, gen, nodeVars>>

\* simulation.start() is called
SimStart ==
    /\ pc = "idle"
    /\ pc' = "check"
    /\ started' = Some([queue |-> event_queue, nodes |-> nodes])
    /\ UNCHANGED <<nodes, cursor, awaited>>
    /\ UNCHANGED <<bcVars, slVars, ppVars, gen, eqVars, netVars, nodeVars>>

\* the head of the loop: leave it when the event queue is empty
StartCheck ==
    /\ pc = "check"
    /\ pc' = IF start_breaks(event_queue) THEN "returned" ELSE "drain"
    /\ UNCHANGED <<nodes, cursor, awaited, started>>
    /\ UNCHANGED <<bcVars, slVars, ppVars, gen, eqVars, netVars, nodeVars>>

\* network.process_events()
StartDrain ==
    /\ pc = "drain"
    /\ LET r == process_events(net, event_queue)
       IN  /\ net' = r.net
           /\ event_queue' = r.queue
    /\ pending' = <<>>
    /\ netLast' = [op |-> "process_events", sender_id |-> 0, target_id |-> 0,
                   ret |-> "returned", value |-> None,
                   pre |-> net, pre_queue |-> event_queue]
    /\ pc' = "run"
    /\ cursor' = 1
    /\ UNCHANGED <<nodes, awaited, started>>
    /\ UNCHANGED <<scheduled, eqLast>>
    /\ UNCHANGED <<bcVars, slVars, ppVars, gen, nodeVars>>

\* one turn of `for node in &self.nodes`: the effects of run are collected,
\* then awaited one by one
StartRunNode ==
    /\ pc = "run"
    /\ cursor <= Len(nodes)
    /\ LET r == run_collect(nodes[cursor])
       IN  /\ nodes' = [nodes EXCEPT ![cursor] = r.node]
           /\ awaited' = awaited \o r.items
    /\ cursor' = cursor + 1
    /\ UNCHANGED <<pc, started>>
    /\ UNCHANGED <<bcVars, slVars, ppVars, gen, eqVars, netVars, nodeVars>>

\* the end of the for loop: back to the head of the loop
StartLoop ==
    /\ pc = "run"
    /\ cursor > Len(nodes)
    /\ pc' = "check"
    /\ UNCHANGED <<nodes, cursor, awaited, started>>
    /\ UNCHANGED <<bcVars, slVars, ppVars, gen, eqVars, netVars, nodeVars>>

\* let mut simulation = Simulation::new();
InitSimulation ==
    /\ heap = [h \in Handles |-> IF h = Live THEN Some(new) ELSE None]
    /\ InitHistory
    /\ InitSL

\* the steps of start
StartStep == StartCheck \/ StartDrain \/ StartRunNode \/ StartLoop

NextSim == SimAddNode \/ SimSend \/ SimStart \/ StartStep

SpecSim == InitSimulation /\ [][NextSim]_vars

\* start is run to its end: the executor polls the future until it is ready,
\* and no step of start waits for anything
SpecSimFair == SpecSim /\ WF_vars(StartStep)

(***************************************************************************)
(* Properties of a proposal                                                *)
(***************************************************************************)
\* C13: over any sequence of add_signature calls, is_notarized() is true
\* exactly when the number of distinct node ids added is at least t + 1;
\* add_signature with an id already present changes nothing; and a notarized
\* proposal stays notarized.
C13_NotarizedIffThreshold ==
    is_some(prop) =>
        /\ is_notarized(unwrap(prop)) <=> Cardinality(signed) >= bft_t(unwrap(tip)) + 1
        /\ slLast.op = "add_signature" =>
              /\ slLast.arg \in unwrap(slLast.pre).signatures => prop = slLast.pre
              /\ is_notarized(unwrap(slLast.pre)) => is_notarized(unwrap(prop))

\* a repeated id on a proposal that has t signatures, with t at least 2, and
\* stays short of notarization
C13_Witness ==
    /\ is_some(prop)
    /\ slLast.op = "add_signature"
    /\ slLast.arg \in unwrap(slLast.pre).signatures
    /\ bft_t(unwrap(prop)) >= 2
    /\ Cardinality(signed) = bft_t(unwrap(prop))
    /\ ~is_notarized(unwrap(prop))

\* C14: assert_notarized() panics with "Proposal is not notarized" on every
\* proposal with fewer than t + 1 distinct signatures, a fresh one included,
\* and returns on every proposal with at least t + 1.
C14_AssertNotarized ==
    slLast.op = "assert_notarized" =>
        IF Cardinality(signed) < bft_t(unwrap(tip)) + 1
        THEN slLast.ret = NotNotarized
        ELSE slLast.ret = Returns

\* the assertion fails on a proposal that holds exactly t signatures, t >= 1
C14_Witness ==
    /\ slLast.op = "assert_notarized"
    /\ slLast.ret = NotNotarized
    /\ bft_t(unwrap(prop)) >= 1
    /\ Cardinality(unwrap(prop).signatures) = bft_t(unwrap(prop))

\* C15: Proposal::new(parent, epoch) yields a proposal only when epoch >
\* parent.epoch(), and then with an empty signature set, not notarized; for
\* every epoch <= parent.epoch() it panics and no proposal exists.
C15_ProposalNew ==
    slLast.op = "new" =>
        IF slLast.arg > epoch(unwrap(tip))
        THEN /\ slLast.ret = Returns
             /\ is_some(prop)
             /\ unwrap(prop).signatures = {}
             /\ unwrap(prop).epoch = slLast.arg
             /\ unwrap(prop).parent = unwrap(tip)
             /\ ~is_notarized(unwrap(prop))
        ELSE /\ slLast.ret = EpochNotGreater
             /\ prop = None

\* construction on a Block of epoch 2 with epoch 2 fails
C15_Witness ==
    /\ slLast.op = "new"
    /\ slLast.arg = 2
    /\ unwrap(tip).kind = "Block"
    /\ epoch(unwrap(tip)) = 2
    /\ slLast.ret = EpochNotGreater
    /\ prop = None

(***************************************************************************)
(* Properties of the genesis                                               *)
(***************************************************************************)
\* t is the ceiling of 2n/3:  2n <= 3t < 2n + 3
IsCeilTwoThirds(t, n) ==
    LET twoN == pad(mul_limbs(n, 1, 2, 0), 6)
        threeT == pad(mul_limbs(t, 1, 3, 0), 6)
        twoNplus2 == pad(add_limbs(mul_limbs(n, 1, 2, 0), 2), 6)
    IN  /\ limbs_le(twoN, threeT, 6)
        /\ limbs_le(threeT, twoNplus2, 6)

\* t is (2n + 2) div 3, computed without a width
IsTwoNPlusTwoOverThree(t, n) ==
    pad(t, 6) = div_limbs(add_limbs(mul_limbs(n, 1, 2, 0), 2), 6, 0, 3)

\* C16: for every n >= 0, StreamletGenesis::new(n) returns with t = (2n + 2)
\* div 3, which is the ceiling of 2n/3, and genesis.last_final() is
\* Base(n, t, no parent) with epoch 0.
C16_GenesisThreshold ==
    gen.ret # "none" =>
        /\ gen.ret = Returns
        /\ IsTwoNPlusTwoOverThree(unwrap(gen.value).t, gen.n)
        /\ IsCeilTwoThirds(unwrap(gen.value).t, gen.n)
        /\ unwrap(gen.value).n = gen.n
        /\ is_some(gen.last_final) =>
              /\ unwrap(gen.last_final) =
                    [kind |-> "Base", n |-> gen.n, t |-> unwrap(gen.value).t, parent |-> None]
              /\ epoch(unwrap(gen.last_final)) = 0

\* whenever 2n + 2 fits in a usize, the statement of C16 holds, and on small
\* numbers the genesis is the one the chains of this model are built on
GenesisThresholdWithinWidth ==
    (gen.ret # "none" /\ fits64(add_limbs(mul_limbs(gen.n, 1, 2, 0), 2))) =>
        /\ C16_GenesisThreshold
        /\ \A k \in 0..MaxSmallN :
              gen.n = usize(k) =>
                  /\ unwrap(gen.value).t = usize(StreamletGenesis(k).t)
                  /\ StreamletGenesis(k).n = k

(***************************************************************************)
(* Properties of the event queue                                           *)
(***************************************************************************)
\* the least timestamp of a non-empty sequence of events
MinTimestamp(events) ==
    CHOOSE ts \in { events[i].timestamp : i \in DOMAIN events } :
        \A i \in DOMAIN events : ts <= events[i].timestamp

\* the oldest event of a non-empty sequence among those of least timestamp
OldestEarliest(events) ==
    events[CHOOSE i \in DOMAIN events :
              /\ events[i].timestamp = MinTimestamp(events)
              /\ \A j \in 1..(i - 1) : events[j].timestamp # MinTimestamp(events)]

\* C17: every pop returns an event that was pending, whose timestamp is the
\* least of the pending events; pops with no schedule in between yield
\* non-decreasing timestamps; pop on an empty queue returns none.
C17_PopsEarliest ==
    eqLast.op = "pop" =>
        IF eqLast.pre = <<>> THEN eqLast.ret = None
        ELSE /\ is_some(eqLast.ret)
             /\ \E i \in DOMAIN eqLast.pre : eqLast.pre[i] = unwrap(eqLast.ret)
             /\ unwrap(eqLast.ret).timestamp = MinTimestamp(eqLast.pre)
             /\ Len(event_queue) = Len(eqLast.pre) - 1
             /\ \A i \in DOMAIN pending : \E j \in DOMAIN event_queue :
                    event_queue[j] = pending[i]
             /\ is_some(eqLast.prev) =>
                    unwrap(eqLast.prev).timestamp <= unwrap(eqLast.ret).timestamp

\* the second of two pops in a row, of an event that was scheduled after a
\* later one and is followed by a later one still pending
C17_Witness ==
    /\ eqLast.op = "pop"
    /\ is_some(eqLast.prev)
    /\ is_some(eqLast.ret)
    /\ unwrap(eqLast.prev).timestamp < unwrap(eqLast.ret).timestamp
    /\ Len(eqLast.pre) >= 3
    /\ eqLast.pre[1] # unwrap(eqLast.ret)

\* C18: among the pending events of equal timestamp, pop returns them in the
\* order they were scheduled: every pop returns the oldest of the pending
\* events of least timestamp.
C18_PopsStable ==
    (eqLast.op = "pop" /\ eqLast.pre # <<>>) =>
        unwrap(eqLast.ret) = OldestEarliest(eqLast.pre)

(***************************************************************************)
(* Properties of the network                                               *)
(***************************************************************************)
\* C19: receive(node_id) returns, with none, when node_id is not registered
\* or its inbox is empty; otherwise it returns the oldest delivered message
\* and removes it from the inbox.
C19_ReceiveReturns ==
    netLast.op = "receive" =>
        LET id == netLast.target_id
            before == netLast.pre
        IN  IF id \notin before.receivers
            THEN netLast.ret = "returned" /\ netLast.value = None /\ net = before
            ELSE IF before.channels[id] = <<>>
            THEN netLast.ret = "returned" /\ netLast.value = None /\ net = before
            ELSE /\ netLast.ret = "returned"
                 /\ netLast.value = Some(Head(before.channels[id]))
                 /\ net = [before EXCEPT !.channels[id] = Tail(@)]

\* apart from the empty inbox of a registered node, receive behaves as C19
\* says
ReceiveOtherCases ==
    (/\ netLast.op = "receive"
     /\ netLast.target_id \in netLast.pre.receivers =>
            netLast.pre.channels[netLast.target_id] # <<>>) =>
        C19_ReceiveReturns

\* C20: send with an unregistered sender id or an unregistered receiver id
\* returns, schedules no event and delivers nothing: the event queue and every
\* inbox are what they were.
C20_SendUnknown ==
    (/\ netLast.op = "send"
     /\ \/ netLast.sender_id \notin netLast.pre.senders
        \/ netLast.target_id \notin netLast.pre.receivers) =>
        /\ netLast.ret = "returned"
        /\ event_queue = netLast.pre_queue
        /\ net = netLast.pre
        /\ is_some(netLast.value)

\* a send from a registered node to an unregistered one, while an event is
\* scheduled and a message waits in an inbox
C20_Witness ==
    /\ netLast.op = "send"
    /\ netLast.sender_id \in netLast.pre.senders
    /\ netLast.target_id \notin netLast.pre.receivers
    /\ event_queue # <<>>
    /\ \E id \in net.receivers : net.channels[id] # <<>>

(***************************************************************************)
(* Delivery order                                                          *)
(***************************************************************************)
\* event a is before event b in (delivery timestamp, send order); the content
\* of a message is the rank of its send
delivery_before(a, b) ==
    \/ a.timestamp < b.timestamp
    \/ /\ a.timestamp = b.timestamp
       /\ a.message.content < b.message.content

\* the messages the last process_events added to the inbox of id
drained_into(id) ==
    SubSeq(net.channels[id], Len(netLast.pre.channels[id]) + 1, Len(net.channels[id]))

\* C21: per-receiver FIFO. receive returns the oldest message process_events
\* pushed into the inbox and not yet received, and the messages one
\* process_events pushes into one inbox are in non-decreasing delivery
\* timestamp, those of equal timestamp in the order of their sends.
C21_PerReceiverFIFO ==
    /\ (/\ netLast.op = "receive"
        /\ netLast.ret = "returned"
        /\ netLast.target_id \in netLast.pre.receivers) =>
           /\ netLast.value = Some(Head(netLast.pre.channels[netLast.target_id]))
           /\ net.channels[netLast.target_id] =
                  Tail(netLast.pre.channels[netLast.target_id])
    /\ netLast.op = "process_events" =>
           \A id \in net.receivers :
               /\ SubSeq(net.channels[id], 1, Len(netLast.pre.channels[id])) =
                      netLast.pre.channels[id]
               /\ \A i, j \in DOMAIN drained_into(id) :
                      i < j =>
                          \/ drained_into(id)[i].timestamp < drained_into(id)[j].timestamp
                          \/ /\ drained_into(id)[i].timestamp = drained_into(id)[j].timestamp
                             /\ drained_into(id)[i].content < drained_into(id)[j].content

\* the part of C21 that holds: an inbox is a FIFO of what process_events
\* pushed, and one process_events pushes in non-decreasing timestamp
InboxFifoByTimestamp ==
    /\ (/\ netLast.op = "receive"
        /\ netLast.ret = "returned"
        /\ netLast.target_id \in netLast.pre.receivers) =>
           netLast.value = Some(Head(netLast.pre.channels[netLast.target_id]))
    /\ netLast.op = "process_events" =>
           \A id \in net.receivers :
               \A i, j \in DOMAIN drained_into(id) :
                   i < j => drained_into(id)[i].timestamp <= drained_into(id)[j].timestamp

\* the events the last process_events pushed into inboxes, in order
last_pushed == pushed(netLast.pre, netLast.pre_queue)

\* C22: global delivery order. The messages a process_events pushes into
\* inboxes, all receivers together, are in ascending (timestamp, insertion
\* rank), whatever sends and process_events came before.
C22_GlobalOrder ==
    netLast.op = "process_events" =>
        \A i, j \in DOMAIN last_pushed :
            i < j => delivery_before(last_pushed[i], last_pushed[j])

\* the part of C22 that holds: one process_events pushes in non-decreasing
\* timestamp
DrainByTimestamp ==
    netLast.op = "process_events" =>
        \A i, j \in DOMAIN last_pushed :
            i < j => last_pushed[i].timestamp <= last_pushed[j].timestamp

(***************************************************************************)
(* Properties of a node                                                    *)
(***************************************************************************)
\* the (sender, message) pairs the effects a..b log
effect_pairs(es) == [i \in DOMAIN es |-> <<es[i].sender, es[i].message>>]

\* C25: a Sequential node, under any interleaving of handle calls and run
\* iterators, abandoned ones included: the effects yielded so far followed by
\* the buffer are the handled messages in reception order, one effect each,
\* none lost or duplicated; when an iterator reaches its end the buffer is
\* empty and every handled message has its effect.
C25_SequentialEffects ==
    nd.kind = "Sequential" =>
        /\ effect_pairs(effects) \o nd.mailbox = handled
        /\ \A i \in DOMAIN effects : effects[i].id = nd.id
        /\ (nodeLast.op = "next" /\ is_none(nodeLast.value)) =>
               /\ nd.mailbox = <<>>
               /\ effect_pairs(effects) = handled

\* a run abandoned after its first effect, a message left in the buffer
C25_Witness ==
    /\ nd.kind = "Sequential"
    /\ nodeLast.op = "drop"
    /\ effects # <<>>
    /\ nd.mailbox # <<>>

\* C26: Lamport property of an Honest node. Every handle returns with
\* clock = max(clock before, timestamp of the message) + 1, so the clock is
\* then greater than before and greater than the timestamp; no operation
\* makes the clock smaller.
C26_Lamport ==
    (nd.kind = "Honest" /\ nodeLast.op # "none") =>
        /\ limbs_le(nodeLast.pre[1].clock, nd.clock, 4)
        /\ nodeLast.op = "handle" =>
               /\ nodeLast.ret = Returns
               /\ pad(nd.clock, 5) =
                      add_limbs(u64_max(nodeLast.pre[1].clock, nodeLast.arg[1].timestamp), 1)
               /\ nd.clock # nodeLast.pre[1].clock
               /\ nd.clock # nodeLast.arg[1].timestamp
               /\ limbs_le(nodeLast.arg[1].timestamp, nd.clock, 4)

\* C26 holds for the timestamps below u64::MAX handled at a clock below it
LamportWithinWidth ==
    (/\ nd.kind = "Honest"
     /\ nodeLast.op # "none"
     /\ nodeLast.pre[1].clock # U64Max
     /\ nodeLast.op = "handle" => nodeLast.arg[1].timestamp # U64Max) =>
        C26_Lamport

\* C27: finalize(value) on an Honest node returns Some(value) and sets
\* finalized to Some(value); clock, proposals, votes and mailbox are what
\* they were.
C27_Finalize ==
    (nd.kind = "Honest" /\ nodeLast.op = "finalize") =>
        /\ nodeLast.ret = Returns
        /\ nodeLast.value = nodeLast.arg
        /\ nd.finalized = nodeLast.arg
        /\ nd.clock = nodeLast.pre[1].clock
        /\ nd.proposals = nodeLast.pre[1].proposals
        /\ nd.votes = nodeLast.pre[1].votes
        /\ nd.mailbox = nodeLast.pre[1].mailbox
        /\ nd.id = nodeLast.pre[1].id

\* finalize on an Honest node that has handled a message
C27_Witness ==
    /\ nd.kind = "Honest"
    /\ nodeLast.op = "finalize"
    /\ nd.mailbox # <<>>
    /\ nd.clock # u64(0)

(***************************************************************************)
(* Properties of the simulation                                            *)
(***************************************************************************)
\* C23: Simulation::start terminates, whatever nodes were added and whatever
\* events are pending when it is called, and when it has returned the event
\* queue of the network is empty.
C23_StartTerminates ==
    /\ (pc = "check") ~> (pc = "returned")
    /\ [](pc = "returned" => is_empty(event_queue))

\* start has returned after it was called with a node and a pending event
C23_Witness ==
    /\ pc = "returned"
    /\ nodes # <<>>
    /\ started[1].queue # <<>>
    /\ \E id \in net.receivers : net.channels[id] # <<>>

\* run() on a node yields nothing
yields_nothing(self) == is_none(run_next(self).item)

\* C24: quiescence at termination. When start has returned, whatever the
\* state it was called in (an empty event queue included), the buffer of
\* every Sequential or Honest node is empty and run() on any node yields
\* nothing.
C24_Quiescence ==
    pc = "returned" =>
        \A i \in DOMAIN nodes :
            /\ nodes[i].kind \in {"Sequential", "Honest"} => nodes[i].mailbox = <<>>
            /\ yields_nothing(nodes[i])

\* C24 holds when start is called with a pending event
QuiescentAfterDrain ==
    (pc = "returned" /\ started[1].queue # <<>>) => C24_Quiescence

(***************************************************************************)
(* The sliding-window search and the notarization of Blocks                *)
(***************************************************************************)
\* the search as documented: the window (first, middle, last) moves one
\* Block per step, to (first.parent, first, middle)
RECURSIVE sliding_window(_, _, _)
sliding_window(first, middle, lst) ==
    IF is_none(first.parent) THEN first
    ELSE IF epoch(first) + 1 = epoch(middle) /\ epoch(middle) + 1 = epoch(lst) THEN middle
    ELSE LET new_first == unwrap(first.parent)
         IN  IF new_first.kind # "Block" THEN new_first
             ELSE sliding_window(new_first, first, middle)

\* whether the search of last_final(b) reaches its loop
reaches_window(b) ==
    /\ is_some(b.parent) /\ unwrap(b.parent).kind = "Block"
    /\ is_some(unwrap(b.parent).parent)
    /\ unwrap(unwrap(b.parent).parent).kind = "Block"

\* C29: last_final of a Block is the result of the sliding-window search:
\* the middle Block of the first window of consecutive epochs met from the
\* tip toward the genesis, the windows moving one Block per step, also when
\* that window is not the one at the tip.
C29_SlidingWindow ==
    \A b \in ChainBlocks :
        reaches_window(b) =>
            last_final(b) = sliding_window(unwrap(unwrap(b.parent).parent),
                                           unwrap(b.parent), b)

\* last_final agrees with the search when the window at the tip matches
WindowAtTheTip ==
    \A b \in ChainBlocks :
        (reaches_window(b) /\ ThreeConsecutive(b)
            /\ is_some(unwrap(unwrap(b.parent).parent).parent)) =>
            last_final(b) = unwrap(b.parent)

\* C30: every Block that is built has a notarized proposal: its proposal
\* carries at least t + 1 distinct signatures.
C30_BlocksNotarized ==
    \A b \in ChainBlocks : is_notarized(b.proposal)

(***************************************************************************)
(* Properties of the chains built with the struct literal                  *)
(***************************************************************************)
\* the nodes of the chain built so far and of the proposal held
BuiltNodes ==
    (IF is_some(tip) THEN ParentChain(unwrap(tip)) ELSE {})
        \cup (IF is_some(prop) THEN ParentChain(unwrap(prop)) ELSE {})

\* the proposals built: those met as nodes and those packaged in a Block
BuiltProposals ==
    { x \in BuiltNodes : x.kind = "Proposal" }
        \cup { b.proposal : b \in { x \in BuiltNodes : x.kind = "Block" } }

\* C31: epoch monotonicity. For every node of a chain that has a parent (a
\* Proposal and its parent, a Block and its Block.parent), the epoch of the
\* node is greater than the epoch of the parent.
C31_EpochMonotone ==
    \A x \in BuiltNodes :
        is_some(parent(x)) => epoch(x) > epoch(unwrap(parent(x)))

\* the edges StreamletProposal::new checks are monotone
ProposalEdgesMonotone ==
    \A q \in BuiltProposals : epoch(q) > epoch(q.parent)

\* C32: n and t are inherited along every edge: for every node with a
\* parent (for a Block, Block.parent) n() and t() of the node are n() and
\* t() of the parent.
C32_InheritedNT ==
    \A x \in BuiltNodes :
        is_some(parent(x)) =>
            /\ bft_n(x) = bft_n(unwrap(parent(x)))
            /\ bft_t(x) = bft_t(unwrap(parent(x)))

\* a Proposal, and a Block through its proposal, has the n and t of the
\* parent of the proposal
ProposalEdgesInherit ==
    \A q \in BuiltProposals :
        /\ bft_n(q) = bft_n(q.parent)
        /\ bft_t(q) = bft_t(q.parent)

\* the nodes reached from x by following Block.parent, x included
RECURSIVE BlockLinks(_)
BlockLinks(x) ==
    {x} \cup (IF x.kind = "Block" /\ is_some(x.parent)
              THEN BlockLinks(unwrap(x.parent)) ELSE {})

occurrences(seq, Test(_)) == Cardinality({ i \in DOMAIN seq : Test(seq[i]) })

\* the number of places, event queue and inboxes together, that hold the
\* message of the send of rank content
in_flight(content) ==
    Cardinality({ i \in DOMAIN event_queue : event_queue[i].message.content = content })
    + Cardinality({ place \in net.receivers \X (1..scheduled) :
                      /\ place[2] <= Len(net.channels[place[1]])
                      /\ net.channels[place[1]][place[2]].content = content })

effects_of_events(id) ==
    { k \in DOMAIN awaited :
        /\ awaited[k].id = id
        /\ awaited[k].message # initialized(id) }

\* the events that were pending when start was called and whose receiver is id
pending_at_start(id) ==
    { i \in DOMAIN started[1].queue : started[1].queue[i].receiver = id }

\* C34: every event pending when start is called whose receiver is a node of
\* the simulation has reached that node when start has returned: its message
\* was taken from the inbox of the receiver and handed to handle, and the
\* node has yielded an effect for it.
C34_EventsReachNodes ==
    pc = "returned" =>
        \A i \in DOMAIN nodes :
            /\ \A j \in pending_at_start(nodes[i].id) :
                  started[1].queue[j].message \notin Range(net.channels[nodes[i].id])
            /\ Cardinality(effects_of_events(nodes[i].id)) =
                   Cardinality(pending_at_start(nodes[i].id))

\* what start does with the pending events: each one is in the inbox of its
\* receiver when start has returned, and no effect was yielded for it
EventsStayInInbox ==
    pc = "returned" =>
        \A i \in DOMAIN nodes :
            /\ \A j \in pending_at_start(nodes[i].id) :
                  started[1].queue[j].message \in Range(net.channels[nodes[i].id])
            /\ effects_of_events(nodes[i].id) = {}


(***************************************************************************)
(* Outbound actions and finalization of an Honest node                     *)
(***************************************************************************)
\* C35: every propose and every vote of an Honest node returns with the
\* clock one above what it was, in every state.
C35_OutboundTicks ==
    (nd.kind = "Honest" /\ nodeLast.op \in {"propose", "vote"}) =>
        /\ nodeLast.ret = Returns
        /\ pad(nd.clock, 5) = add_limbs(nodeLast.pre[1].clock, 1)

\* the part of C35 that holds: propose at a clock below u64::MAX
ProposeTicks ==
    (/\ nd.kind = "Honest"
     /\ nodeLast.op = "propose"
     /\ nodeLast.pre[1].clock # U64Max) =>
        /\ nodeLast.ret = Returns
        /\ pad(nd.clock, 5) = add_limbs(nodeLast.pre[1].clock, 1)

\* what vote does to the clock of an Honest node: nothing
VoteKeepsClock ==
    (nd.kind = "Honest" /\ nodeLast.op = "vote") =>
        /\ nodeLast.ret = Returns
        /\ nd.clock = nodeLast.pre[1].clock

\* C39: once finalized holds a value, no later call changes it to a
\* different value.
C39_FinalizedStable ==
    (/\ nd.kind = "Honest"
     /\ nodeLast.op # "none"
     /\ is_some(nodeLast.pre[1].finalized)) =>
        nd.finalized = nodeLast.pre[1].finalized

\* the calls other than finalize leave finalized as it is
OnlyFinalizeSetsFinalized ==
    (/\ nd.kind = "Honest"
     /\ nodeLast.op \notin {"none", "finalize"}) =>
        nd.finalized = nodeLast.pre[1].finalized


(***************************************************************************)
(* The threshold against the number of participants                        *)
(***************************************************************************)
\* t + 1 <= n for the genesis that new(n) returned
threshold_within(genesis) ==
    limbs_le(add_limbs(genesis.t, 1), pad(genesis.n, 5), 5)

\* C38: for every n >= 1, StreamletGenesis::new(n) returns a genesis with
\* t + 1 <= n: the t + 1 signatures of a notarization can come from distinct
\* node ids among the n participants.
C38_ThresholdAttainable ==
    (gen.ret # "none" /\ gen.n # usize(0)) =>
        /\ gen.ret = Returns
        /\ threshold_within(unwrap(gen.value))

\* the part of C38 that holds: every genesis of three participants or more
\* that new returns has t + 1 <= n
AttainableFromThree ==
    (gen.ret = Returns /\ gen.n \notin {usize(0), usize(1), usize(2)}) =>
        threshold_within(unwrap(gen.value))

\* over a genesis of one or two participants, no set of signatures of the
\* node ids below n notarizes a proposal
UnattainableBelowThree ==
    (/\ is_some(prop)
     /\ bft_n(unwrap(prop)) \in {1, 2}
     /\ signed \subseteq 0..(bft_n(unwrap(prop)) - 1)) =>
        ~is_notarized(unwrap(prop))


(***************************************************************************)
(* Anchors and the states of a context                                     *)
(***************************************************************************)
\* the context after the first k of the transactions txs were applied to the
\* empty context
RECURSIVE state_after(_, _)
state_after(txs, k) ==
    IF k = 0 THEN new
    ELSE add_transaction(state_after(txs, k - 1), txs[k], overflow_checks).ctx

\* the states the context behind handle h had before its last accepted
\* transaction was applied
earlier_states(h) ==
    { state_after(accepted[h], k) : k \in 0..(Len(accepted[h]) - 1) }

\* C36: every transaction with shielded inputs that add_transaction accepts
\* carries an anchor that is a state the context it is applied to had at an
\* earlier point, after some prefix of its applied transactions; an anchor
\* that was never a state of the context is rejected.
C36_AnchorIsEarlierState ==
    (Returned("true") /\ LastTx.shielded_inputs # <<>>) =>
        /\ is_some(LastTx.anchor)
        /\ unwrap(LastTx.anchor) \in earlier_states(last.via)

\* what is_valid requires of the anchor of an accepted transaction with
\* shielded inputs: it is present and holds every input as Unspent
AnchorHoldsInputsUnspent ==
    (Returned("true") /\ LastTx.shielded_inputs # <<>>) =>
        /\ is_some(LastTx.anchor)
        /\ can_spend(unwrap(LastTx.anchor), LastTx.shielded_inputs)

\* the states the model recomputes are the ones the context went through
ReplayIsTheContext ==
    \A h \in Handles :
        (is_some(heap[h]) /\ ~panicked) =>
            state_after(accepted[h], Len(accepted[h])) = unwrap(heap[h])


(***************************************************************************)
(* Value held by a context                                                 *)
(***************************************************************************)
\* the sum of the values of a set of TXOs or of Notes
RECURSIVE total_value(_)
total_value(items) ==
    IF items = {} THEN 0
    ELSE LET item == CHOOSE x \in items : TRUE
         IN  item.value + total_value(items \ {item})

\* the notes a context marks Unspent
unspent_notes(context) == { n \in DOMAIN context.notes : context.notes[n] = Unspent }

\* C37: in every context reached from the empty one, the values of the TXOs
\* of the UTXO set plus the values of the Unspent notes are at most
\* total_issuance.
C37_ValueConservation ==
    \A h \in Handles :
        is_some(heap[h]) =>
            total_value(unwrap(heap[h]).utxo_set)
                + total_value(unspent_notes(unwrap(heap[h])))
                <= unwrap(heap[h]).total_issuance

\* what add_transaction does to the value held: an accepted transaction adds
\* the values of its new outputs and takes those of its inputs, whatever its
\* issuance and its fee
ValueFollowsOutputs ==
    Returned("true") =>
        /\ LastPost.utxo_set =
               (LastPre.utxo_set \ Range(LastTx.transparent_inputs))
                   \cup Range(LastTx.transparent_outputs)
        /\ unspent_notes(LastPost) =
               (unspent_notes(LastPre) \ Range(LastTx.shielded_inputs))
                   \cup Range(LastTx.shielded_outputs)

====
